---- MODULE Spec2Model ----
(***************************************************************************)
(* Verification model of lsst daf_persistence.                             *)
(*                                                                         *)
(*  - Persistence::persist / Persistence::unsafeRetrieve                   *)
(*    (src/src/Persistence.cc) driving a Formatter over a Storage::List    *)
(*  - DbStorageImpl (src/src/DbStorageImpl.cc): input bindings,            *)
(*    insertRow(), query() and the result cursor (next, getColumnByPos,    *)
(*    columnIsNull, finishQuery)                                           *)
(*  - FormatterRegistry (src/src/FormatterRegistry.cc)                     *)
(***************************************************************************)
EXTENDS Naturals, Integers, Sequences, FiniteSets, TLC

\* ------------------------------------------------------------------------
\* Bounds
\* ------------------------------------------------------------------------
MaxStorages == 3
MaxLen == 2
MaxWhereLen == 4
MaxOutColumns == 1
MaxOpenStatements == 2
MaxRows == 2
MaxRegistrations == 3
MaxLookups == 2
MaxInstances == 2
MaxStagingFiles == 2
MaxStagedRows == 2
MaxResults == 2
MaxClauseLen == 2
MaxTables == 3
MaxQueryColumns == 2

\* ------------------------------------------------------------------------
\* Persistence orchestrator: state
\* ------------------------------------------------------------------------
VARIABLES
    storageList,   \* Storage::List handed to the call: sequence of Storage kinds
    stored,        \* per Storage: the value a retrieve finds in it
    fmt,           \* the Formatter the registry lookup returned
    st,            \* per Storage: transaction state of the backend
    pc,            \* position inside Persistence::persist / unsafeRetrieve
    it,            \* the loop iterator `it` (1-based index into storageList)
    iter,          \* persist() argument iter
    len,           \* persist() argument len
    persistable,   \* unsafeRetrieve's local `persistable` (0 = null pointer)
    objs,          \* Persistable instances constructed so far (the heap)
    trace,         \* calls made on the collaborators, in order
    done,          \* retrieveVector's local `done`
    retrieved      \* retrieveVector's local `result` (pointers, 0 = null)

persistVars == <<storageList, stored, fmt, st, pc, it, iter, len,
                 persistable, objs, trace, done, retrieved>>

\* ------------------------------------------------------------------------
\* FormatterRegistry: state
\* ------------------------------------------------------------------------
VARIABLES
    byName,        \* _byName: persistable name -> factory
    nameForType,   \* _nameForType: type_info::name() -> persistable name
    registered,    \* the registerFormatter calls made so far, in order
    lookup,        \* the most recent lookupFormatter call and how it ended
    handedOut      \* the Formatters that lookupFormatter calls returned, in order

regVars == <<byName, nameForType, registered, lookup, handedOut>>

\* ------------------------------------------------------------------------
\* DbStorageImpl: state
\* ------------------------------------------------------------------------
VARIABLES
    readonly,      \* _readonly
    db,            \* _db: TRUE when a session is open (non-null MYSQL*)
    insertTable,   \* _insertTable
    inputVars,     \* _inputVars: column/parameter name -> BoundVar
    queryTables,   \* _queryTables
    outColumns,    \* _outColumns
    outputVars,    \* _outputVars
    whereClause,   \* _whereClause
    groupBy,       \* _groupBy
    orderBy,       \* _orderBy
    statement,     \* _statement: "null", "open" or "uninit"
    sent,          \* the statement the most recent call executed on the server
    dbResult,      \* how the most recent call ended: "ok" or "error"
    lastRow,       \* the row most recently inserted: column -> bound parameter
    touched,       \* columns set since that row was inserted
    reused         \* columns of that row not set since the row before it

\* The prepared statement on the server side and the result cursor.
VARIABLES
    openStmts,       \* MYSQL_STMT handles initialised and not yet closed
    tableRows,       \* rows already in the table that a query selects
    result,          \* result set of the executed statement, or NoResult
    cursor,          \* number of rows of the result set fetched so far
    numResultFields, \* _numResultFields
    fieldNulls,      \* _fieldNulls
    dests,           \* the caller's outParam destinations: column -> value
    ret,             \* the most recent cursor call that returned, and its value
    fetches          \* how each next() since the last query() ended;
                     \* <<"closed">> once finishQuery() returned

cursorVars == <<openStmts, tableRows, result, cursor, numResultFields,
                fieldNulls, dests, ret, fetches>>

dbVars == <<readonly, db, insertTable, inputVars, queryTables, outColumns,
            outputVars, whereClause, groupBy, orderBy, statement, sent, dbResult, lastRow,
            touched, reused, cursorVars>>

\* ------------------------------------------------------------------------
\* Storage backends, DateTime and the property-set archive: state
\* ------------------------------------------------------------------------
VARIABLES
    storages,      \* the Storage instances createInstance() returned, in order
    created,       \* the most recent StorageRegistry::createInstance call
    fs,            \* the file system: resolved path -> "dir", "archive", "empty"
    located        \* the most recent setPersistLocation / setRetrieveLocation /
                   \* endTransaction call on a file-based Storage

fileVars == <<storages, created, fs, located>>

\* DbTsvStorage, its staging files and the database server
VARIABLES
    tsv,           \* the members of one DbTsvStorage
    staging,       \* the staging files on disk: file -> the rows written to it
    loads,         \* the LOAD DATA statements the server executed, in order
    tsvLog         \* the transaction so far: rows passed to insertRow(), staging
                   \* files created, and how endTransaction() ended

tsvVars == <<tsv, staging, loads, tsvLog>>

\* DateTime conversions and the property-set archive
VARIABLES
    instant,       \* the DateTime under conversion and the results so far
    archive        \* the PropertySet being saved, the archive, the loaded one

backendVars == <<fileVars, tsvVars, instant, archive>>

vars == <<persistVars, regVars, dbVars, backendVars>>

StorageKinds == {"BoostStorage", "DbStorage"}
Formatters == {"MyFormatter", "MinimalFormatter"}
Values == {1, 2}
NullPtr == 0

N == Len(storageList)

Ev(c, k, ok) == [call |-> c, st |-> k, ok |-> ok]

\* State of one backend as far as transactions go.
\*   autocommit : the MySQL session's autocommit flag (always TRUE for files)
\*   pending    : writes made but not yet committed / not yet flushed+closed
\*   committed  : writes that are durable
\*   ended      : number of endTransaction() calls that returned
InitStorageState == [autocommit |-> TRUE, pending |-> 0, committed |-> 0, ended |-> 0]

\* DbStorageImpl::startTransaction: mysql_autocommit(_db, false).
\* BoostStorage::startTransaction: empty body.
StartTransaction_keepAutocommit(kind, s) == s

StartTransaction(kind, s) ==
    IF kind = "DbStorage" THEN [s EXCEPT !.autocommit = FALSE] ELSE s

\* DbStorageImpl::endTransaction: mysql_commit, then autocommit back on.
\* BoostStorage::endTransaction: resets archive and stream (closing the file).
EndTransaction(kind, s) ==
    [s EXCEPT !.committed = s.committed + s.pending,
              !.pending = 0,
              !.autocommit = TRUE,
              !.ended = s.ended + 1]

\* What one successful Formatter::write leaves in the backend.
\* MyFormatter (tests/Persistence_2.cc): one value into the archive, or one
\* insertRow(); a row inserted with autocommit on is committed at once.
\* MinimalFormatter (tests/FormatterRegistry_1.cc): empty body.
FormatterWrite(f, kind, s) ==
    IF f = "MinimalFormatter" THEN s
    ELSE IF kind = "DbStorage" /\ s.autocommit
         THEN [s EXCEPT !.committed = s.committed + 1]
         ELSE [s EXCEPT !.pending = s.pending + 1]

\* MyPersistable(double ra = 0.0, double decl = 0.0)
NewMyPersistable == [ra |-> 0, decl |-> 0]

\* MyFormatter::update: BoostStorage replaces ra only, DbStorage replaces
\* decl only.
FormatterUpdate(kind, val, obj) ==
    IF kind = "BoostStorage" THEN [obj EXCEPT !.ra = val]
                             ELSE [obj EXCEPT !.decl = val]

\* Formatter::read: the heap after the call and the pointer returned.
\* MyFormatter::read constructs a MyPersistable and fills it from the Storage;
\* MinimalFormatter::read is `return 0`.
FormatterReadHeap(f, kind, val, heap) ==
    IF f = "MinimalFormatter" THEN heap
    ELSE Append(heap, FormatterUpdate(kind, val, NewMyPersistable))

FormatterReadResult(f, heap) ==
    IF f = "MinimalFormatter" THEN NullPtr ELSE Len(heap) + 1

\* ------------------------------------------------------------------------
\* Persistence::persist
\* ------------------------------------------------------------------------
\* `if (iter == 0)` guarding startTransaction
PersistStartsTransaction_first1(i) == i = 1

PersistStartsTransaction(i) == i = 0

\* `if (iter == len - 1)` guarding the commit loop
PersistEndsTransaction_offByOne(i, l) == i = l

PersistEndsTransaction(i, l) == i = l - 1

\* Position after the write loop has finished with element k-1.
PersistLoopPc(k, i, l) ==
    IF k <= N THEN (IF PersistStartsTransaction(i) THEN "p_start" ELSE "p_write")
    ELSE IF PersistEndsTransaction(i, l) /\ N >= 1 THEN "p_end"
    ELSE "done"

PersistLoopIt(k) == IF k <= N THEN k ELSE 1

\* An exception leaving a collaborator call is not caught in persist().
PersistOnThrow_commit == "p_end"

PersistOnThrow == "failed"

\* Entry: persist(persistable, storageList, additionalData, iter, len).
\* The caller persists the instances of a list one after the other:
\* iter = 0, 1, ..., len - 1.
PersistCall ==
    /\ pc = "idle"
    /\ \E l \in 1..MaxLen :
         /\ len' = l
         /\ iter' = 0
         /\ pc' = PersistLoopPc(1, 0, l)
    /\ it' = 1
    /\ UNCHANGED <<storageList, stored, fmt, done, retrieved, st, persistable, objs, trace>>
    /\ UNCHANGED <<dbVars, regVars, backendVars>>

PersistNextCall ==
    /\ pc = "done"
    /\ iter >= 0
    /\ iter < len - 1
    /\ iter' = iter + 1
    /\ pc' = PersistLoopPc(1, iter + 1, len)
    /\ it' = 1
    /\ UNCHANGED <<storageList, stored, fmt, done, retrieved, st, len, persistable, objs, trace>>
    /\ UNCHANGED <<dbVars, regVars, backendVars>>

PersistStartTransaction ==
    /\ pc = "p_start"
    /\ \E ok \in BOOLEAN :
         /\ trace' = Append(trace, Ev("startTransaction", it, ok))
         /\ IF ok
            THEN /\ st' = [st EXCEPT ![it] = StartTransaction(storageList[it], st[it])]
                 /\ pc' = "p_write"
            ELSE /\ st' = st
                 /\ pc' = PersistOnThrow
    /\ UNCHANGED <<storageList, stored, fmt, done, retrieved, it, iter, len, persistable, objs>>
    /\ UNCHANGED <<dbVars, regVars, backendVars>>

PersistWrite ==
    /\ pc = "p_write"
    /\ \E ok \in BOOLEAN :
         /\ trace' = Append(trace, Ev("write", it, ok))
         /\ IF ok
            THEN /\ st' = [st EXCEPT ![it] = FormatterWrite(fmt, storageList[it], st[it])]
                 /\ pc' = PersistLoopPc(it + 1, iter, len)
                 /\ it' = PersistLoopIt(it + 1)
            ELSE /\ st' = st
                 /\ pc' = PersistOnThrow
                 /\ it' = it
    /\ UNCHANGED <<storageList, stored, fmt, done, retrieved, iter, len, persistable, objs>>
    /\ UNCHANGED <<dbVars, regVars, backendVars>>

PersistEndTransaction ==
    /\ pc = "p_end"
    /\ \E ok \in BOOLEAN :
         /\ trace' = Append(trace, Ev("endTransaction", it, ok))
         /\ IF ok
            THEN /\ st' = [st EXCEPT ![it] = EndTransaction(storageList[it], st[it])]
                 /\ pc' = IF it + 1 <= N THEN "p_end" ELSE "done"
                 /\ it' = IF it + 1 <= N THEN it + 1 ELSE 1
            ELSE /\ st' = st
                 /\ pc' = PersistOnThrow
                 /\ it' = it
    /\ UNCHANGED <<storageList, stored, fmt, done, retrieved, iter, len, persistable, objs>>
    /\ UNCHANGED <<dbVars, regVars, backendVars>>

\* ------------------------------------------------------------------------
\* Persistence::unsafeRetrieve (Persistence::retrieve wraps its result)
\* ------------------------------------------------------------------------
\* `if (!persistable)`: read when no object has been obtained yet
RetrieveReads_always(p) == TRUE

RetrieveReads(p) == p = NullPtr

\* Position after the read/update loop has finished with element k-1.
RetrieveLoopPc_noStart(k) ==
    IF k <= N THEN "r_body" ELSE IF N >= 1 THEN "r_end" ELSE "r_done"

RetrieveLoopPc(k) ==
    IF k <= N THEN "r_start" ELSE IF N >= 1 THEN "r_end" ELSE "r_done"

RetrieveCall ==
    /\ pc = "idle"
    /\ pc' = RetrieveLoopPc(1)
    /\ it' = 1
    /\ persistable' = NullPtr
    /\ UNCHANGED <<storageList, stored, fmt, done, retrieved, st, iter, len, objs, trace>>
    /\ UNCHANGED <<dbVars, regVars, backendVars>>

RetrieveStartTransaction ==
    /\ pc = "r_start"
    /\ \E ok \in BOOLEAN :
         /\ trace' = Append(trace, Ev("startTransaction", it, ok))
         /\ IF ok
            THEN /\ st' = [st EXCEPT ![it] = StartTransaction(storageList[it], st[it])]
                 /\ pc' = "r_body"
            ELSE /\ st' = st
                 /\ pc' = "failed"
    /\ UNCHANGED <<storageList, stored, fmt, done, retrieved, it, iter, len, persistable, objs>>
    /\ UNCHANGED <<dbVars, regVars, backendVars>>

RetrieveRead ==
    /\ pc = "r_body"
    /\ RetrieveReads(persistable)
    /\ \E ok \in BOOLEAN :
         /\ trace' = Append(trace, Ev("read", it, ok))
         /\ IF ok
            THEN /\ objs' = FormatterReadHeap(fmt, storageList[it], stored[it], objs)
                 /\ persistable' = FormatterReadResult(fmt, objs)
                 /\ pc' = RetrieveLoopPc(it + 1)
                 /\ it' = PersistLoopIt(it + 1)
            ELSE /\ UNCHANGED <<objs, persistable, it>>
                 /\ pc' = "failed"
    /\ UNCHANGED <<storageList, stored, fmt, done, retrieved, st, iter, len>>
    /\ UNCHANGED <<dbVars, regVars, backendVars>>

RetrieveUpdate ==
    /\ pc = "r_body"
    /\ ~RetrieveReads(persistable)
    /\ \E ok \in BOOLEAN :
         /\ trace' = Append(trace, Ev("update", it, ok))
         /\ IF ok
            THEN /\ objs' = IF fmt = "MinimalFormatter" THEN objs
                            ELSE [objs EXCEPT ![persistable] =
                                    FormatterUpdate(storageList[it], stored[it], @)]
                 /\ pc' = RetrieveLoopPc(it + 1)
                 /\ it' = PersistLoopIt(it + 1)
            ELSE /\ UNCHANGED <<objs, it>>
                 /\ pc' = "failed"
    /\ UNCHANGED <<storageList, stored, fmt, done, retrieved, st, iter, len, persistable>>
    /\ UNCHANGED <<dbVars, regVars, backendVars>>

RetrieveEndTransaction ==
    /\ pc = "r_end"
    /\ \E ok \in BOOLEAN :
         /\ trace' = Append(trace, Ev("endTransaction", it, ok))
         /\ IF ok
            THEN /\ st' = [st EXCEPT ![it] = EndTransaction(storageList[it], st[it])]
                 /\ pc' = IF it + 1 <= N THEN "r_end" ELSE "r_done"
                 /\ it' = IF it + 1 <= N THEN it + 1 ELSE 1
            ELSE /\ st' = st
                 /\ pc' = "failed"
                 /\ it' = it
    /\ UNCHANGED <<storageList, stored, fmt, done, retrieved, iter, len, persistable, objs>>
    /\ UNCHANGED <<dbVars, regVars, backendVars>>

\* ------------------------------------------------------------------------
\* Persistence::retrieveVector
\* ------------------------------------------------------------------------
\* Formatter::read(storage, additionalData, &done) can set `done` through the
\* pointer.  The Storages hold a finite number of objects: the read that
\* makes the MaxResults-th one sets it.
ReadSetsDone(n) == IF n + 1 >= MaxResults THEN {TRUE} ELSE BOOLEAN

\* position after the body of the for loop has finished with element k-1
RetrieveVectorLoopPc(k) == IF k <= N THEN "v_body" ELSE "v_push"

\* `catch (...) { done = true; }`: the exception is not rethrown
RetrieveVectorOnThrow_rethrow == "failed"

RetrieveVectorOnThrow == "v_while"

\* Entry: retrieveVector(persistableType, storageList, additionalData).
RetrieveVectorCall ==
    /\ pc = "idle"
    /\ pc' = IF N >= 1 THEN "v_start" ELSE "v_while"
    /\ it' = 1
    /\ done' = FALSE
    /\ retrieved' = <<>>
    /\ UNCHANGED <<storageList, stored, fmt, st, iter, len, persistable, objs, trace>>
    /\ UNCHANGED <<dbVars, regVars, backendVars>>

\* the loop calling startTransaction() on each Storage
RetrieveVectorStartTransaction ==
    /\ pc = "v_start"
    /\ \E ok \in BOOLEAN :
         /\ trace' = Append(trace, Ev("startTransaction", it, ok))
         /\ IF ok
            THEN /\ st' = [st EXCEPT ![it] = StartTransaction(storageList[it], st[it])]
                 /\ pc' = IF it + 1 <= N THEN "v_start" ELSE "v_while"
                 /\ it' = IF it + 1 <= N THEN it + 1 ELSE 1
            ELSE /\ st' = st
                 /\ pc' = "failed"
                 /\ it' = it
    /\ UNCHANGED <<storageList, stored, fmt, done, retrieved, iter, len, persistable, objs>>
    /\ UNCHANGED <<dbVars, regVars, backendVars>>

\* `while (!done) { persistable = 0; ...`
RetrieveVectorWhile ==
    /\ pc = "v_while"
    /\ IF done
       THEN /\ pc' = IF N >= 1 THEN "v_end" ELSE "v_done"
            /\ UNCHANGED persistable
       ELSE /\ pc' = RetrieveVectorLoopPc(1)
            /\ persistable' = NullPtr
    /\ it' = 1
    /\ UNCHANGED <<storageList, stored, fmt, done, retrieved, st, iter, len, objs, trace>>
    /\ UNCHANGED <<dbVars, regVars, backendVars>>

\* `persistable = f->read(*it, additionalData, &done)`
RetrieveVectorRead ==
    /\ pc = "v_body"
    /\ RetrieveReads(persistable)
    /\ \E ok \in BOOLEAN : \E sets \in ReadSetsDone(Len(retrieved)) :
         /\ trace' = Append(trace, Ev("read", it, ok))
         /\ IF ok
            THEN /\ objs' = FormatterReadHeap(fmt, storageList[it], stored[it], objs)
                 /\ persistable' = FormatterReadResult(fmt, objs)
                 /\ done' = (done \/ sets)
                 /\ pc' = RetrieveVectorLoopPc(it + 1)
                 /\ it' = PersistLoopIt(it + 1)
            ELSE /\ UNCHANGED <<objs, persistable, it>>
                 /\ done' = TRUE
                 /\ pc' = RetrieveVectorOnThrow
    /\ UNCHANGED <<storageList, stored, fmt, retrieved, st, iter, len>>
    /\ UNCHANGED <<dbVars, regVars, backendVars>>

\* `f->update(persistable, *it, additionalData)`
RetrieveVectorUpdate ==
    /\ pc = "v_body"
    /\ ~RetrieveReads(persistable)
    /\ \E ok \in BOOLEAN :
         /\ trace' = Append(trace, Ev("update", it, ok))
         /\ IF ok
            THEN /\ objs' = IF fmt = "MinimalFormatter" THEN objs
                            ELSE [objs EXCEPT ![persistable] =
                                    FormatterUpdate(storageList[it], stored[it], @)]
                 /\ done' = done
                 /\ pc' = RetrieveVectorLoopPc(it + 1)
                 /\ it' = PersistLoopIt(it + 1)
            ELSE /\ UNCHANGED <<objs, it>>
                 /\ done' = TRUE
                 /\ pc' = RetrieveVectorOnThrow
    /\ UNCHANGED <<storageList, stored, fmt, retrieved, st, iter, len, persistable>>
    /\ UNCHANGED <<dbVars, regVars, backendVars>>

\* `result.push_back(shared_ptr<Persistable>(persistable))`.  Of a vector
\* longer than MaxResults the first MaxResults elements are kept.
RetrieveVectorPushBack ==
    /\ pc = "v_push"
    /\ retrieved' = IF Len(retrieved) < MaxResults
                    THEN Append(retrieved, persistable)
                    ELSE retrieved
    /\ pc' = "v_while"
    /\ UNCHANGED <<storageList, stored, fmt, done, st, it, iter, len, persistable, objs, trace>>
    /\ UNCHANGED <<dbVars, regVars, backendVars>>

\* the loop calling endTransaction() on each Storage, then `return result`
RetrieveVectorEndTransaction ==
    /\ pc = "v_end"
    /\ \E ok \in BOOLEAN :
         /\ trace' = Append(trace, Ev("endTransaction", it, ok))
         /\ IF ok
            THEN /\ st' = [st EXCEPT ![it] = EndTransaction(storageList[it], st[it])]
                 /\ pc' = IF it + 1 <= N THEN "v_end" ELSE "v_done"
                 /\ it' = IF it + 1 <= N THEN it + 1 ELSE 1
            ELSE /\ st' = st
                 /\ pc' = "failed"
                 /\ it' = it
    /\ UNCHANGED <<storageList, stored, fmt, done, retrieved, iter, len, persistable, objs>>
    /\ UNCHANGED <<dbVars, regVars, backendVars>>

\* ------------------------------------------------------------------------
\* FormatterRegistry
\* ------------------------------------------------------------------------
PersistableNames == {"MyPersistable", "YourPersistable"}
TypeIds == {"typeid(MyPersistable)", "typeid(int)"}
Factories == {"createInstance", "factory"}

\* names and type identities used in lookups, registered or not
LookupNames == PersistableNames \cup {"FooBar"}
LookupTypeIds == TypeIds \cup {"typeid(double)"}

\* std::map::insert(value_type(k, v)): an existing entry is kept
MapInsert_overwrite(m, k, v) ==
    [x \in DOMAIN m \cup {k} |-> IF x = k THEN v ELSE m[x]]

MapInsert(m, k, v) ==
    [x \in DOMAIN m \cup {k} |-> IF x \in DOMAIN m THEN m[x] ELSE v]

\* the exception lookupFormatter throws for a key that is not in its map
UnregisteredError_notFound == "NotFound"

UnregisteredError == "InvalidParameterException"

\* registerFormatter(persistableName, persistableType, factory)
RegisterFormatter(n, t, f) ==
    /\ Len(registered) < MaxRegistrations
    /\ byName' = MapInsert(byName, n, f)
    /\ nameForType' = MapInsert(nameForType, t, n)
    /\ registered' = Append(registered, [name |-> n, type |-> t, factory |-> f])
    /\ UNCHANGED <<lookup, handedOut>>
    /\ UNCHANGED <<persistVars, dbVars, backendVars>>

\* The outcome of lookupFormatter(persistableName, policy): the factory found
\* under the name is called and its Formatter returned.  at: the number of
\* registrations made before the call.
LookupResult(by, key, n) ==
    IF n \in DOMAIN byName
    THEN [by |-> by, key |-> key, at |-> Len(registered), error |-> "none",
          madeBy |-> byName[n]]
    ELSE [by |-> by, key |-> key, at |-> Len(registered),
          error |-> UnregisteredError, madeBy |-> NullPtr]

\* the concrete Formatter class each factory function constructs
FormatterKind(f) ==
    IF f = "createInstance" THEN "MyFormatter" ELSE "YourFormatter"

\* Formatter::Ptr(new XFormatter): the factory constructs a new object on
\* each call; id is the object's identity, made the number of Formatters
\* constructed before it plus one.
FactoryCall_cached(f, made) ==
    [id |-> IF f = "createInstance" THEN 1 ELSE 2, kind |-> FormatterKind(f)]

FactoryCall(f, made) ==
    [id |-> Len(made) + 1, kind |-> FormatterKind(f)]

\* the Formatters handed out after a lookupFormatter call that ended as r
HandedOutAfter(r) ==
    IF r.error = "none"
    THEN Append(handedOut, [key |-> r.key, ptr |-> FactoryCall(r.madeBy, handedOut)])
    ELSE handedOut

\* lookupFormatter(std::string const& persistableName, policy)
LookupFormatterByName(n) ==
    /\ n \in DOMAIN byName => Len(handedOut) < MaxLookups
    /\ lookup' = LookupResult("name", n, n)
    /\ handedOut' = HandedOutAfter(lookup')
    /\ UNCHANGED <<byName, nameForType, registered>>
    /\ UNCHANGED <<persistVars, dbVars, backendVars>>

\* lookupFormatter(std::type_info const& persistableType, policy)
LookupFormatterByType(t) ==
    /\ t \in DOMAIN nameForType => Len(handedOut) < MaxLookups
    /\ lookup' = IF t \in DOMAIN nameForType
                 THEN LookupResult("type", t, nameForType[t])
                 ELSE [by |-> "type", key |-> t, at |-> Len(registered),
                       error |-> UnregisteredError, madeBy |-> NullPtr]
    /\ handedOut' = HandedOutAfter(lookup')
    /\ UNCHANGED <<byName, nameForType, registered>>
    /\ UNCHANGED <<persistVars, dbVars, backendVars>>

\* ------------------------------------------------------------------------
\* DbStorageImpl: values, names and bound variables
\* ------------------------------------------------------------------------
\* Texts are sequences of characters.  Letters stands for [A-Za-z_]; "?" is
\* a character that is neither a letter nor ":".
Letters == {"x", "y"}
WhereChars == Letters \cup {":", "?"}

ColumnNames == {<<"x">>, <<"y">>, <<"x", "y">>}
InsertColumns == {<<"x">>, <<"y">>}
OutColumnNames == {<<"x">>}
TableName == <<"T">>

\* a field of a BoundVar or a buffer that nothing has written yet
Uninit == "uninit"
\* a value read from, or left by a write to, memory outside an allocation
Garbage == "garbage"

\* what an int or my_bool that was never assigned holds
IndeterminateInt == -1

\* a my_bool
MyBool_inverted(b) == IF b THEN 0 ELSE 1

MyBool(b) == IF b THEN 1 ELSE 0
NoStatement == [kind |-> "none"]
NoRow == [kind |-> "none"]

\* The instantiations of the setColumn / condParam templates that are modelled:
\* <<C++ type, value>>.
TypedValues ==
    {<<"long long", 1>>, <<"unsigned long long", 2>>, <<"std::string", <<"a">> >>}

CondValues == {<<"long long", 1>>, <<"unsigned long long", 2>>}

\* values of different sizes for one column: an empty text, a text of one
\* byte and an 8-byte integer
BindValues ==
    {<<"std::string", <<>> >>, <<"std::string", <<"a">> >>, <<"long long", 1>>}

\* BoundVarTraits<T>::mysqlType
MysqlType(T) ==
    CASE T = "std::string" -> "MYSQL_TYPE_VAR_STRING"
      [] T = "bool" -> "MYSQL_TYPE_LONG"
      [] T = "double" -> "MYSQL_TYPE_DOUBLE"
      [] T = "DateTime" -> "MYSQL_TYPE_DATETIME"
      [] OTHER -> "MYSQL_TYPE_LONGLONG"

\* BoundVarTraits<T>::isUnsigned
IsUnsigned(T) == T \in {"unsigned long long", "bool"}

\* nanoseconds per second, as in `value.nsecs() % 1000000000LL`
NsPerSec == 1000000000

\* values written and read back: an integer, a boolean, a text, a
\* floating-point number (2.0) and DateTimes of 0 s, 1 s and 1.5 s
RoundTripValues ==
    {<<"long long", 1>>, <<"bool", TRUE>>, <<"std::string", <<"a">> >>,
     <<"double", 2>>, <<"DateTime", 0>>, <<"DateTime", NsPerSec>>,
     <<"DateTime", NsPerSec + 500000000>>}

RoundTripTypes == {"long long", "bool", "std::string", "double", "DateTime"}

\* sizeof(MYSQL_TIME)
SizeofMysqlTime == 40

\* size of the buffer outParam<std::string> allocates
OutStringSize == 4096

\* The MYSQL_TIME that setColumn<DateTime> fills from a DateTime (nanosecond
\* count): the civil fields down to the second, and the microseconds.
MysqlTime(nsecs) ==
    [second |-> nsecs \div NsPerSec, second_part |-> (nsecs % NsPerSec) \div 1000]

\* DateTime(t.year, t.month, t.day, t.hour, t.minute, t.second, UTC): the
\* nanosecond count of the civil time; t.second_part is not used.
DateTimeFromMysqlTime_withFraction(t) == t.second * NsPerSec + t.second_part * 1000

\* the same built from the fields down to the minute
DateTimeFromMysqlTime_toTheMinute(t) == (t.second \div 60) * 60 * NsPerSec

DateTimeFromMysqlTime(t) == t.second * NsPerSec

\* sizeof(T), value.length() for the std::string specialisation,
\* sizeof(MYSQL_TIME) for the DateTime specialisation
SizeOf(T, v) ==
    CASE T = "std::string" -> Len(v)
      [] T = "bool" -> 1
      [] T = "DateTime" -> SizeofMysqlTime
      [] OTHER -> 8

\* what setColumn copies into the buffer
ToBuffer(T, v) == IF T = "DateTime" THEN MysqlTime(v) ELSE v

\* bytes the client library reads from (or writes to) a buffer of a MySQL
\* type: the width of the type, whatever buffer_length says
WireWidth(type, length) ==
    CASE type = "MYSQL_TYPE_LONG" -> 4
      [] type = "MYSQL_TYPE_LONGLONG" -> 8
      [] type = "MYSQL_TYPE_DOUBLE" -> 8
      [] type = "MYSQL_TYPE_DATETIME" -> SizeofMysqlTime
      [] OTHER -> length

\* DbStorageImpl::quote for a name without '.'; "BQ" is the backquote character
Quote(name) == <<"BQ">> \o name \o <<"BQ">>

\* setColumn<T>(columnName, value) on the binding map iv.  A new binding gets a
\* buffer of size bytes; an existing one gets a new buffer only when its
\* recorded length differs from size.
SetColumnVar(iv, n, T, v) ==
    LET size == SizeOf(T, v)
        cap  == IF n \notin DOMAIN iv THEN size
                ELSE IF iv[n].length # size THEN size
                ELSE iv[n].cap
    IN  [m \in DOMAIN iv \cup {n} |->
            IF m = n
            THEN [type |-> MysqlType(T), isNull |-> FALSE,
                  isUnsigned |-> IsUnsigned(T), length |-> size,
                  data |-> ToBuffer(T, v), cap |-> cap]
            ELSE iv[m]]

\* setColumn on an existing binding whose recorded length equals size keeps
\* the buffer; the memcpy of size bytes overruns it when it is smaller.
Overflows(iv, n, T, v) ==
    /\ n \in DOMAIN iv
    /\ iv[n].length = SizeOf(T, v)
    /\ iv[n].cap < SizeOf(T, v)

\* How a setColumn call can end: normally, or, when the copy overruns the
\* buffer, in any way at all.
SetColumnOutcomes(iv, n, T, v) ==
    IF Overflows(iv, n, T, v) THEN {"ok", "undefined"} ELSE {"ok"}

\* setColumnToNull(columnName): only _isNull and _length are written.
SetColumnToNullVar(iv, n) ==
    [m \in DOMAIN iv \cup {n} |->
        IF m # n THEN iv[m]
        ELSE IF n \in DOMAIN iv
             THEN [iv[n] EXCEPT !.isNull = TRUE, !.length = 1]
             ELSE [type |-> Uninit, isNull |-> TRUE, isUnsigned |-> Uninit,
                   length |-> 1, data |-> Uninit, cap |-> 1]]

\* The MYSQL_BIND insertRow() fills for one BoundVar (memset to 0 first).
\* alloc is the size of the allocation that buffer points to.
BindParam(bv) ==
    IF bv.isNull
    THEN [buffer_type |-> "MYSQL_TYPE_NULL", buffer |-> "0", buffer_length |-> 0,
          length |-> 0, is_unsigned |-> FALSE, alloc |-> 0]
    ELSE [buffer_type |-> bv.type, buffer |-> bv.data, buffer_length |-> bv.length,
          length |-> bv.length, is_unsigned |-> bv.isUnsigned, alloc |-> bv.cap]

\* The MYSQL_BIND query() fills for one WHERE parameter.
BindWhere(bv) ==
    [buffer_type |-> bv.type, buffer |-> bv.data, buffer_length |-> bv.length,
     length |-> 0, is_unsigned |-> bv.isUnsigned]

\* The orders in which an unordered_map with key set S can be iterated.
IterationOrders(S) ==
    {o \in [1..Cardinality(S) -> S] : \A i, j \in DOMAIN o : i # j => o[i] # o[j]}

\* insertRow(): binder[i] is filled while the i-th name is appended.
InsertBinds_reversed(order, iv) ==
    [i \in 1..Len(order) |-> BindParam(iv[order[Len(order) + 1 - i]])]

InsertBinds(order, iv) ==
    [i \in 1..Len(order) |-> BindParam(iv[order[i]])]

\* insertRow() does not touch _inputVars after executing.
InsertRowBindingsAfter_cleared(iv) == [n \in {} |-> NoRow]

InsertRowBindingsAfter(iv) == iv

\* ------------------------------------------------------------------------
\* DbStorageImpl::query: the WHERE clause scan, regex ":([A-Za-z_]+)"
\* ------------------------------------------------------------------------
RECURSIVE LetterRun(_, _)
\* number of letters starting at position p of w
LetterRun(w, p) ==
    IF p <= Len(w) /\ w[p] \in Letters THEN 1 + LetterRun(w, p + 1) ELSE 0

RECURSIVE RegexTokens(_, _)
\* whereBindings: the captured names of the matches at or after position p
RegexTokens(w, p) ==
    IF p > Len(w) THEN <<>>
    ELSE IF w[p] = ":" /\ LetterRun(w, p + 1) >= 1
         THEN <<SubSeq(w, p + 1, p + LetterRun(w, p + 1))>>
              \o RegexTokens(w, p + 1 + LetterRun(w, p + 1))
         ELSE RegexTokens(w, p + 1)

RECURSIVE RewriteWhere(_, _)
\* result: prefixes copied, each match replaced by '?', last suffix copied
RewriteWhere(w, p) ==
    IF p > Len(w) THEN <<>>
    ELSE IF w[p] = ":" /\ LetterRun(w, p + 1) >= 1
         THEN <<"?">> \o RewriteWhere(w, p + 1 + LetterRun(w, p + 1))
         ELSE <<w[p]>> \o RewriteWhere(w, p + 1)

\* mysql_stmt_param_count: the '?' markers of the prepared text
ParamCount(text) == Cardinality({p \in 1..Len(text) : text[p] = "?"})

\* inBinder[i] is filled from _inputVars.find(whereBindings[i])
QueryBinds_reversed(toks, iv) ==
    [i \in 1..Len(toks) |-> BindWhere(iv[toks[Len(toks) + 1 - i]])]

QueryBinds(toks, iv) ==
    [i \in 1..Len(toks) |-> BindWhere(iv[toks[i]])]

\* ------------------------------------------------------------------------
\* The table on the server and the result set of a query
\* ------------------------------------------------------------------------
\* A cell of a row: NULL, or a value of a column type with its byte length.
\* junk: bytes that were not part of the bound value went into the cell.
NullCell ==
    [isNull |-> TRUE, type |-> "MYSQL_TYPE_NULL", value |-> <<>>, length |-> 0,
     junk |-> FALSE]

\* text cells: one that fits the buffer of outParam<std::string> and one that
\* is a byte longer (written as its first byte and its length)
ShortText ==
    [isNull |-> FALSE, type |-> "MYSQL_TYPE_VAR_STRING", value |-> <<"a">>,
     length |-> 1, junk |-> FALSE]

LongText ==
    [isNull |-> FALSE, type |-> "MYSQL_TYPE_VAR_STRING", value |-> <<"z">>,
     length |-> OutStringSize + 1, junk |-> FALSE]

\* rows of a table with one text column
TextRows == {[c \in OutColumnNames |-> cell] : cell \in {NullCell, ShortText, LongText}}

NoResult == [open |-> FALSE, rows |-> <<>>]

\* an outParam destination the library has not written yet
NotDelivered == [set |-> FALSE]

\* The client library reads WireWidth bytes at bind.buffer when the statement
\* is executed; the allocation behind the buffer may be smaller.
OverReads(b) ==
    /\ b.buffer_type # "MYSQL_TYPE_NULL"
    /\ WireWidth(b.buffer_type, b.length) > b.alloc

\* The cell the server stores for a bound parameter.  g: the bytes read past
\* the end of the allocation turned out not to be zero.
StoredCell(b, g) ==
    IF b.buffer_type = "MYSQL_TYPE_NULL" THEN NullCell
    ELSE [isNull |-> FALSE, type |-> b.buffer_type, value |-> b.buffer,
          length |-> b.length, junk |-> OverReads(b) /\ g]

StoredRow(row, g) == [c \in DOMAIN row |-> StoredCell(row[c], g)]

OverReadOutcomes ==
    IF lastRow # NoRow /\ (\E c \in DOMAIN lastRow : OverReads(lastRow[c]))
    THEN BOOLEAN ELSE {FALSE}

\* The rows a query selects: those already in the table and the row inserted
\* through this Storage.
ServerRows(g) ==
    tableRows \o (IF lastRow = NoRow THEN <<>> ELSE <<StoredRow(lastRow, g)>>)

\* the column name inside quote(name)
Unquote(q) == SubSeq(q, 2, Len(q) - 1)

\* A result row: the cells of a table row in SELECT-list order; a column the
\* row has no value for is NULL.
ProjectRow(row, cols) ==
    [i \in 1..Len(cols) |->
        IF Unquote(cols[i]) \in DOMAIN row THEN row[Unquote(cols[i])] ELSE NullCell]

ResultSets ==
    {[k \in 1..Len(ServerRows(g)) |-> ProjectRow(ServerRows(g)[k], outColumns)] :
        g \in OverReadOutcomes}

\* ------------------------------------------------------------------------
\* DbStorageImpl: operations
\* ------------------------------------------------------------------------
\* a call that throws before changing anything
DbError ==
    /\ dbResult' = "error"
    /\ sent' = NoStatement

\* startSession(location): the handle held before is closed and a new one
\* made; TRUE when mysql_real_connect succeeds on the new handle
ConnectOutcomes == BOOLEAN

\* a location call on which mysql_real_connect failed: startSession() throws
\* with the new, unconnected handle in _db, before _readonly is assigned
DbUnconnected ==
    /\ dbResult' = "unconnected"
    /\ sent' = NoStatement

\* _readonly after setPersistLocation()
PersistReadonly_stays == readonly

PersistReadonly == FALSE

\* setPersistLocation(location)
DbSetPersistLocation ==
    /\ \E connected \in ConnectOutcomes :
          IF connected
          THEN /\ readonly' = PersistReadonly
               /\ dbResult' = "ok"
               /\ sent' = NoStatement
          ELSE /\ DbUnconnected
               /\ UNCHANGED readonly
    /\ db' = TRUE
    /\ UNCHANGED <<insertTable, inputVars, queryTables, outColumns, outputVars,
                   whereClause, groupBy, orderBy, statement, lastRow, touched,
                   reused>>
    /\ UNCHANGED cursorVars
    /\ UNCHANGED <<persistVars, regVars, backendVars>>

\* setRetrieveLocation(location)
DbSetRetrieveLocation ==
    /\ \E connected \in ConnectOutcomes :
          IF connected
          THEN /\ readonly' = TRUE
               /\ dbResult' = "ok"
               /\ sent' = NoStatement
          ELSE /\ DbUnconnected
               /\ UNCHANGED readonly
    /\ db' = TRUE
    /\ UNCHANGED <<insertTable, inputVars, queryTables, outColumns, outputVars,
                   whereClause, groupBy, orderBy, statement, lastRow, touched,
                   reused>>
    /\ UNCHANGED cursorVars
    /\ UNCHANGED <<persistVars, regVars, backendVars>>

SetTableForInsert ==
    /\ IF readonly
       THEN /\ DbError
            /\ UNCHANGED <<insertTable, inputVars, touched>>
       ELSE /\ insertTable' = TableName
            /\ inputVars' = [n \in {} |-> NoRow]
            /\ touched' = IF lastRow = NoRow THEN touched ELSE InsertColumns
            /\ dbResult' = "ok"
            /\ sent' = NoStatement
    /\ UNCHANGED <<readonly, db, queryTables, outColumns, outputVars,
                   whereClause, groupBy, orderBy, statement, lastRow, reused>>
    /\ UNCHANGED cursorVars
    /\ UNCHANGED <<persistVars, regVars, backendVars>>

SetColumn(n, tv) ==
    /\ inputVars' = SetColumnVar(inputVars, n, tv[1], tv[2])
    /\ touched' = IF lastRow = NoRow THEN touched ELSE touched \cup {n}
    /\ dbResult' \in SetColumnOutcomes(inputVars, n, tv[1], tv[2])
    /\ sent' = NoStatement
    /\ UNCHANGED <<readonly, db, insertTable, queryTables, outColumns,
                   outputVars, whereClause, groupBy, orderBy, statement, lastRow, reused>>
    /\ UNCHANGED cursorVars
    /\ UNCHANGED <<persistVars, regVars, backendVars>>

SetColumnToNull(n) ==
    /\ inputVars' = SetColumnToNullVar(inputVars, n)
    /\ touched' = IF lastRow = NoRow THEN touched ELSE touched \cup {n}
    /\ dbResult' = "ok"
    /\ sent' = NoStatement
    /\ UNCHANGED <<readonly, db, insertTable, queryTables, outColumns,
                   outputVars, whereClause, groupBy, orderBy, statement, lastRow, reused>>
    /\ UNCHANGED cursorVars
    /\ UNCHANGED <<persistVars, regVars, backendVars>>

\* How the MySQL client library can answer insertRow(): "ok", "init"
\* (mysql_stmt_init returned 0) or "later" (prepare, bind or execute failed).
\* A failure that leaves one more statement open is considered only while
\* fewer than MaxOpenStatements are open.
InsertOutcomes ==
    IF openStmts < MaxOpenStatements THEN {"ok", "init", "later"} ELSE {"ok", "init"}

\* insertRow().  After a "later" failure the statement is neither closed nor
\* zeroed; the handle _statement held before the call is overwritten without
\* being closed.
InsertRow ==
    /\ IF readonly \/ insertTable = <<>> \/ DOMAIN inputVars = {}
       THEN /\ DbError
            /\ UNCHANGED <<inputVars, statement, lastRow, touched, reused,
                           openStmts, result, cursor>>
       ELSE \E order \in IterationOrders(DOMAIN inputVars) :
            \E outcome \in InsertOutcomes :
              /\ inputVars' = InsertRowBindingsAfter(inputVars)
              /\ openStmts' = IF outcome = "later" THEN openStmts + 1 ELSE openStmts
              /\ result' = NoResult
              /\ cursor' = 0
              /\ IF outcome = "ok"
                 THEN /\ sent' = [kind |-> "INSERT",
                                  table |-> Quote(insertTable),
                                  names |-> [i \in 1..Len(order) |-> Quote(order[i])],
                                  placeholders |-> Cardinality(DOMAIN inputVars),
                                  binds |-> InsertBinds(order, inputVars)]
                      /\ statement' = "null"
                      /\ dbResult' = "ok"
                      /\ lastRow' = [n \in DOMAIN inputVars |-> BindParam(inputVars[n])]
                      /\ reused' = IF lastRow = NoRow THEN {}
                                   ELSE (DOMAIN inputVars \cap DOMAIN lastRow) \ touched
                      /\ touched' = {}
                 ELSE /\ DbError
                      /\ statement' = IF outcome = "init" THEN "null" ELSE "open"
                      /\ UNCHANGED <<lastRow, touched, reused>>
    /\ UNCHANGED <<readonly, db, insertTable, queryTables, outColumns,
                   outputVars, whereClause, groupBy, orderBy>>
    /\ UNCHANGED <<tableRows, numResultFields, fieldNulls, dests, ret, fetches>>
    /\ UNCHANGED <<persistVars, regVars, backendVars>>

\* setTableForQuery(tableName): _statement is zeroed without being closed.
\* setTableForQuery() without `_inputVars.clear()`
SetTableForQuery_keepsBindings ==
    /\ IF ~db
       THEN /\ DbError
            /\ UNCHANGED <<queryTables, inputVars, outputVars, outColumns,
                           whereClause, groupBy, orderBy, statement, touched, result, cursor>>
       ELSE /\ queryTables' = <<Quote(TableName)>>
            /\ UNCHANGED inputVars
            /\ outputVars' = [n \in {} |-> NoRow]
            /\ outColumns' = <<>>
            /\ whereClause' = <<>>
            /\ groupBy' = <<>>
            /\ orderBy' = <<>>
            /\ statement' = "null"
            /\ result' = NoResult
            /\ cursor' = 0
            /\ touched' = IF lastRow = NoRow THEN touched ELSE InsertColumns
            /\ dbResult' = "ok"
            /\ sent' = NoStatement
    /\ UNCHANGED <<readonly, db, insertTable, lastRow, reused>>
    /\ UNCHANGED <<openStmts, tableRows, numResultFields, fieldNulls, dests,
                   ret, fetches>>
    /\ UNCHANGED <<persistVars, regVars, backendVars>>

SetTableForQuery ==
    /\ IF ~db
       THEN /\ DbError
            /\ UNCHANGED <<queryTables, inputVars, outputVars, outColumns,
                           whereClause, groupBy, orderBy, statement, touched, result, cursor>>
       ELSE /\ queryTables' = <<Quote(TableName)>>
            /\ inputVars' = [n \in {} |-> NoRow]
            /\ outputVars' = [n \in {} |-> NoRow]
            /\ outColumns' = <<>>
            /\ whereClause' = <<>>
            /\ groupBy' = <<>>
            /\ orderBy' = <<>>
            /\ statement' = "null"
            /\ result' = NoResult
            /\ cursor' = 0
            /\ touched' = IF lastRow = NoRow THEN touched ELSE InsertColumns
            /\ dbResult' = "ok"
            /\ sent' = NoStatement
    /\ UNCHANGED <<readonly, db, insertTable, lastRow, reused>>
    /\ UNCHANGED <<openStmts, tableRows, numResultFields, fieldNulls, dests,
                   ret, fetches>>
    /\ UNCHANGED <<persistVars, regVars, backendVars>>

OutColumn(c) ==
    /\ Len(outColumns) < MaxOutColumns
    /\ outColumns' = Append(outColumns, Quote(c))
    /\ dbResult' = "ok"
    /\ sent' = NoStatement
    /\ UNCHANGED <<readonly, db, insertTable, inputVars, queryTables, outputVars,
                   whereClause, groupBy, orderBy, statement, lastRow, touched, reused>>
    /\ UNCHANGED cursorVars
    /\ UNCHANGED <<persistVars, regVars, backendVars>>

\* condParam<T>(paramName, value) is setColumn<T>(paramName, value)
CondParam(n, tv) == SetColumn(n, tv)

SetQueryWhere(w) ==
    /\ whereClause' = w
    /\ UNCHANGED <<groupBy, orderBy>>
    /\ dbResult' = "ok"
    /\ sent' = NoStatement
    /\ UNCHANGED <<readonly, db, insertTable, inputVars, queryTables, outColumns,
                   outputVars, statement, lastRow, touched, reused>>
    /\ UNCHANGED cursorVars
    /\ UNCHANGED <<persistVars, regVars, backendVars>>

\* expressions given to groupBy() and orderBy()
Expressions == {<<"x">>, <<"y">>}

\* `if (!clause.empty()) clause += ", "; clause += expression;`
AppendExpression(clause, e) ==
    IF clause = <<>> THEN e ELSE clause \o <<",", " ">> \o e

\* groupBy(expression)
GroupBy(e) ==
    /\ Len(groupBy) < MaxClauseLen
    /\ groupBy' = AppendExpression(groupBy, e)
    /\ dbResult' = "ok"
    /\ sent' = NoStatement
    /\ UNCHANGED <<readonly, db, insertTable, inputVars, queryTables, outColumns,
                   outputVars, whereClause, orderBy, statement, lastRow, touched,
                   reused>>
    /\ UNCHANGED cursorVars
    /\ UNCHANGED <<persistVars, regVars, backendVars>>

\* orderBy(expression)
OrderBy(e) ==
    /\ Len(orderBy) < MaxClauseLen
    /\ orderBy' = AppendExpression(orderBy, e)
    /\ dbResult' = "ok"
    /\ sent' = NoStatement
    /\ UNCHANGED <<readonly, db, insertTable, inputVars, queryTables, outColumns,
                   outputVars, whereClause, groupBy, statement, lastRow, touched,
                   reused>>
    /\ UNCHANGED cursorVars
    /\ UNCHANGED <<persistVars, regVars, backendVars>>

\* the table lists given to setTableListForQuery()
OtherTableName == <<"U">>

TableLists ==
    {<<TableName>>, <<OtherTableName>>, <<OtherTableName, TableName>>}

\* The tables setTableListForQuery(tableNameList) leaves in _queryTables: the
\* quoted names are pushed onto the vector as it is.
QueryTablesAfterList(tables, L) == tables \o [i \in DOMAIN L |-> Quote(L[i])]

\* setTableListForQuery(tableNameList): _statement is zeroed without being
\* closed.
SetTableListForQuery(L) ==
    /\ Len(queryTables) + Len(L) <= MaxTables
    /\ IF ~db
       THEN /\ DbError
            /\ UNCHANGED <<queryTables, inputVars, outputVars, outColumns,
                           whereClause, groupBy, orderBy, statement, touched,
                           result, cursor>>
       ELSE /\ queryTables' = QueryTablesAfterList(queryTables, L)
            /\ inputVars' = [n \in {} |-> NoRow]
            /\ outputVars' = [n \in {} |-> NoRow]
            /\ outColumns' = <<>>
            /\ whereClause' = <<>>
            /\ groupBy' = <<>>
            /\ orderBy' = <<>>
            /\ statement' = "null"
            /\ result' = NoResult
            /\ cursor' = 0
            /\ touched' = IF lastRow = NoRow THEN touched ELSE InsertColumns
            /\ dbResult' = "ok"
            /\ sent' = NoStatement
    /\ UNCHANGED <<readonly, db, insertTable, lastRow, reused>>
    /\ UNCHANGED <<openStmts, tableRows, numResultFields, fieldNulls, dests,
                   ret, fetches>>
    /\ UNCHANGED <<persistVars, regVars, backendVars>>

\* query().  It fails before a statement is initialised when there is no
\* output column or a ":name" of the WHERE text has no binding; "init":
\* mysql_stmt_init returned 0; "later": prepare failed.  A FROM clause without
\* tables and a parameter count that differs from the number of WHERE
\* bindings fail after the statement was initialised.  The handle _statement
\* held before the call is overwritten without being closed.  An output
\* column without output binding fails after the statement was executed.
Query ==
    LET toks == IF whereClause = <<>> THEN <<>> ELSE RegexTokens(whereClause, 1)
        text == RewriteWhere(whereClause, 1)
    IN
    /\ IF outColumns = <<>> \/ (\E i \in DOMAIN toks : toks[i] \notin DOMAIN inputVars)
       THEN /\ DbError
            /\ UNCHANGED <<statement, openStmts, result, cursor, numResultFields,
                           fieldNulls, fetches>>
       ELSE \E outcome \in {"ok", "init", "later"} :
              IF outcome = "init"
              THEN /\ DbError
                   /\ statement' = "null"
                   /\ result' = NoResult
                   /\ cursor' = 0
                   /\ UNCHANGED <<openStmts, numResultFields, fieldNulls, fetches>>
              ELSE IF \/ outcome = "later"
                      \/ queryTables = <<>>
                      \/ ParamCount(text) # Len(toks)
                   THEN /\ DbError
                        /\ statement' = "open"
                        /\ openStmts' = openStmts + 1
                        /\ result' = NoResult
                        /\ cursor' = 0
                        /\ fetches' = <<>>
                        /\ UNCHANGED <<numResultFields, fieldNulls>>
                   ELSE /\ sent' = [kind |-> "SELECT",
                                    cols |-> outColumns,
                                    tables |-> queryTables,
                                    where |-> text,
                                    groupBy |-> groupBy,
                                    orderBy |-> orderBy,
                                    binds |-> QueryBinds(toks, inputVars)]
                        /\ statement' = "open"
                        /\ openStmts' = openStmts + 1
                        /\ \E rows \in ResultSets : result' = [open |-> TRUE, rows |-> rows]
                        /\ cursor' = 0
                        /\ fetches' = <<>>
                        /\ numResultFields' = Len(outColumns)
                        /\ fieldNulls' = [i \in 1..Len(outColumns) |-> IndeterminateInt]
                        /\ dbResult' =
                              IF /\ DOMAIN outputVars # {}
                                 /\ \E i \in DOMAIN outColumns :
                                       outColumns[i] \notin DOMAIN outputVars
                              THEN "error" ELSE "ok"
    /\ UNCHANGED <<readonly, db, insertTable, inputVars, queryTables, outColumns,
                   outputVars, whereClause, groupBy, orderBy, lastRow, touched, reused>>
    /\ UNCHANGED <<tableRows, dests, ret>>
    /\ UNCHANGED <<persistVars, regVars, backendVars>>

\* finishQuery(), called on an open statement: mysql_stmt_close, _statement = 0
FinishQuery ==
    /\ statement = "open"
    /\ statement' = "null"
    /\ openStmts' = openStmts - 1
    /\ result' = NoResult
    /\ cursor' = 0
    /\ fetches' = <<"closed">>
    /\ dbResult' = "ok"
    /\ sent' = NoStatement
    /\ UNCHANGED <<readonly, db, insertTable, inputVars, queryTables, outColumns,
                   outputVars, whereClause, groupBy, orderBy, lastRow, touched, reused>>
    /\ UNCHANGED <<tableRows, numResultFields, fieldNulls, dests, ret>>
    /\ UNCHANGED <<persistVars, regVars, backendVars>>

\* ------------------------------------------------------------------------
\* DbStorageImpl: output bindings and the result cursor
\* ------------------------------------------------------------------------
\* _length of an output binding: 4096 for std::string, sizeof(MYSQL_TIME) for
\* DateTime, sizeof(T) otherwise
OutSize(T) == IF T = "std::string" THEN OutStringSize ELSE SizeOf(T, <<>>)

\* outParam<T>(columnName, location).  The column is appended to _outColumns
\* before the duplicate check.
OutParam(c, T) ==
    LET col == Quote(c) IN
    /\ outColumns' = Append(outColumns, col)
    /\ IF col \in DOMAIN outputVars
       THEN /\ DbError
            /\ UNCHANGED <<outputVars, dests>>
       ELSE /\ outputVars' =
                 [m \in DOMAIN outputVars \cup {col} |->
                     IF m = col
                     THEN [type |-> MysqlType(T), isNull |-> FALSE,
                           isUnsigned |-> IsUnsigned(T), length |-> OutSize(T),
                           data |-> col, cap |-> OutSize(T)]
                     ELSE outputVars[m]]
            /\ dests' = [m \in DOMAIN dests \cup {col} |->
                            IF m = col THEN NotDelivered ELSE dests[m]]
            /\ dbResult' = "ok"
            /\ sent' = NoStatement
    /\ UNCHANGED <<readonly, db, insertTable, inputVars, queryTables,
                   whereClause, groupBy, orderBy, statement, lastRow, touched, reused>>
    /\ UNCHANGED <<openStmts, tableRows, result, cursor, numResultFields,
                   fieldNulls, ret, fetches>>
    /\ UNCHANGED <<persistVars, regVars, backendVars>>

\* a call whose behaviour is undefined: it may return anything (or not return)
DbUndefined ==
    /\ dbResult' = "undefined"
    /\ sent' = NoStatement
    /\ ret' = [call |-> "any", kind |-> Garbage]

\* the value a fetch delivers for a cell into a buffer of a MySQL type: a
\* DateTime is built from the year ... second fields of the MYSQL_TIME
FetchedValue(type, cell) ==
    IF type = "MYSQL_TYPE_DATETIME" /\ cell.type = "MYSQL_TYPE_DATETIME"
    THEN DateTimeFromMysqlTime(cell.value)
    ELSE cell.value

\* mysql_stmt_fetch reports MYSQL_DATA_TRUNCATED for a value longer than the
\* bound buffer
Truncated(bv, cell) ==
    /\ ~cell.isNull
    /\ bv.type = "MYSQL_TYPE_VAR_STRING"
    /\ cell.length > bv.length

\* the fetch writes WireWidth bytes at the bound location
OverWrites(bv) == WireWidth(bv.type, bv.length) > bv.cap

\* std::string and DateTime destinations are assigned by next() after the
\* fetch returned 0; the others are written by the fetch itself
NeedsFixUp(bv) == bv.type \in {"MYSQL_TYPE_VAR_STRING", "MYSQL_TYPE_DATETIME"}

\* The outParam destinations after a fetch of row.  fixup: next() ran its
\* fix-up loop; g: a write past the end of a destination did damage.  junk:
\* the destination holds, or lies next to, bytes that are not the column's
\* value.
DestsAfterFetch(row, fixup, g) ==
    [col \in DOMAIN dests |->
        LET hits == {i \in DOMAIN row : i \in DOMAIN outColumns /\ outColumns[i] = col
                                        /\ ~row[i].isNull}
        IN  IF hits = {} \/ col \notin DOMAIN outputVars THEN dests[col]
            ELSE LET i  == CHOOSE h \in hits : \A k \in hits : h <= k
                     bv == outputVars[col]
                 IN  IF NeedsFixUp(bv) /\ ~fixup THEN dests[col]
                     ELSE [set |-> TRUE, v |-> FetchedValue(bv.type, row[i]),
                           junk |-> row[i].junk \/ (OverWrites(bv) /\ g)]]

\* the statement has been executed and the last fetch delivered a row
HasCurrentRow ==
    /\ statement = "open"
    /\ result.open
    /\ Len(fetches) > 0
    /\ fetches[Len(fetches)] \in {"true", "truncated", "unbound"}

\* every column of the SELECT list has an output binding
AllBound == \A i \in DOMAIN outColumns : outColumns[i] \in DOMAIN outputVars

\* What mysql_stmt_fetch returns.  fail: the fetch failed in the client library
\* or on the server.  Without output bindings query() binds buffers of length
\* 0, so that every value that is not empty is truncated.
FetchCode(fail) ==
    IF fail \/ ~result.open THEN "1"
    ELSE IF cursor >= Len(result.rows) THEN "MYSQL_NO_DATA"
    ELSE LET row == result.rows[cursor + 1] IN
         IF \E i \in DOMAIN row :
               /\ ~row[i].isNull
               /\ IF DOMAIN outputVars = {} THEN row[i].length > 0
                  ELSE /\ AllBound
                       /\ Truncated(outputVars[outColumns[i]], row[i])
         THEN "MYSQL_DATA_TRUNCATED"
         ELSE "0"

\* how next() ends for a return code of mysql_stmt_fetch
NextOutcome_noDataTrue(rc, bound) ==
    IF rc \in {"0", "MYSQL_NO_DATA"} THEN "true"
    ELSE IF rc = "MYSQL_DATA_TRUNCATED" /\ ~bound THEN "true"
    ELSE "error"

NextOutcome(rc, bound) ==
    IF rc = "0" THEN "true"
    ELSE IF rc = "MYSQL_NO_DATA" THEN "false"
    ELSE IF rc = "MYSQL_DATA_TRUNCATED" /\ ~bound THEN "true"
    ELSE "error"

\* an output binding whose destination next() assigns from its buffer comes
\* before the first column of the SELECT list that has no binding
FixUpBeforeUnbound ==
    \E i \in DOMAIN outColumns :
       /\ outColumns[i] \in DOMAIN outputVars
       /\ NeedsFixUp(outputVars[outColumns[i]])
       /\ \E k \in DOMAIN outColumns : k > i /\ outColumns[k] \notin DOMAIN outputVars

\* next(), on a Storage whose _statement has been assigned.  When query()
\* raised "Unbound variable in SELECT clause" no result buffer is bound: the
\* fetch still takes a row, and the fix-up loop raises the same error, after
\* assigning from buffers that were never filled.
Next ==
    /\ statement # Uninit
    /\ Len(fetches) < MaxRows + 2
    /\ sent' = NoStatement
    /\ IF statement = "null"
       THEN /\ dbResult' = "error"
            /\ UNCHANGED <<cursor, fieldNulls, dests, ret, fetches>>
       ELSE \E fail \in BOOLEAN : \E g \in BOOLEAN :
            LET rc      == FetchCode(fail)
                bound   == DOMAIN outputVars # {}
                unbound == rc = "0" /\ bound /\ ~AllBound
                outcome == IF unbound THEN "error" ELSE NextOutcome(rc, bound)
                took    == rc \in {"0", "MYSQL_DATA_TRUNCATED"}
                                /\ cursor < Len(result.rows)
                row     == result.rows[cursor + 1]
            IN  /\ cursor' = IF took THEN cursor + 1 ELSE cursor
                /\ fieldNulls' = IF took /\ ~unbound
                                 THEN [i \in DOMAIN row |-> MyBool(row[i].isNull)]
                                 ELSE fieldNulls
                /\ dests' = IF took /\ bound /\ ~unbound
                            THEN DestsAfterFetch(row, rc = "0", g)
                            ELSE dests
                /\ fetches' = Append(fetches,
                                 IF outcome # "error" THEN outcome
                                 ELSE IF unbound THEN "unbound"
                                 ELSE IF rc = "MYSQL_DATA_TRUNCATED" THEN "truncated"
                                 ELSE "failed")
                /\ ret' = IF outcome = "error" THEN ret
                          ELSE [call |-> "next", kind |-> "bool", v |-> outcome = "true"]
                /\ dbResult' = IF outcome # "error" THEN "ok"
                               ELSE IF unbound /\ FixUpBeforeUnbound THEN "undefined"
                               ELSE "error"
    /\ UNCHANGED <<readonly, db, insertTable, inputVars, queryTables, outColumns,
                   outputVars, whereClause, groupBy, orderBy, statement, lastRow, touched, reused>>
    /\ UNCHANGED <<openStmts, tableRows, result, numResultFields>>
    /\ UNCHANGED <<persistVars, regVars, backendVars>>

\* mysql_stmt_fetch_column(_statement, &bind, pos, 0): column pos of the
\* current row
FetchColumn_firstRow(rows, cur, pos) == rows[1][pos + 1]

FetchColumn(rows, cur, pos) == rows[cur][pos + 1]

\* the MySQL column types getColumnByPos<DateTime> accepts
TemporalTypes ==
    {"MYSQL_TYPE_TIME", "MYSQL_TYPE_DATE", "MYSQL_TYPE_DATETIME", "MYSQL_TYPE_TIMESTAMP"}

\* `static T t` is smaller than what the fetch writes for its buffer type
StaticOverWrites(T) == WireWidth(MysqlType(T), SizeOf(T, <<>>)) > SizeOf(T, <<>>)

\* getColumnByPos<T>(pos); pos counts from 0.  Only pos > _numResultFields is
\* rejected; _statement is not checked.  A position outside _fieldNulls and a
\* statement that is not open make the behaviour undefined.
GetColumnByPos(pos, T) ==
    /\ IF numResultFields = IndeterminateInt
       THEN /\ DbUndefined
            /\ UNCHANGED fieldNulls
       ELSE IF pos > numResultFields
       THEN /\ DbError
            /\ UNCHANGED <<fieldNulls, ret>>
       ELSE IF pos + 1 \notin DOMAIN fieldNulls \/ statement # "open"
       THEN /\ DbUndefined
            /\ UNCHANGED fieldNulls
       ELSE IF ~HasCurrentRow
       THEN /\ DbError
            /\ UNCHANGED <<fieldNulls, ret>>
       ELSE LET cell == FetchColumn(result.rows, cursor, pos) IN
            IF T = "DateTime" /\ ~cell.isNull /\ cell.type \notin TemporalTypes
            THEN /\ DbError
                 /\ UNCHANGED <<fieldNulls, ret>>
            ELSE /\ fieldNulls' = [fieldNulls EXCEPT ![pos + 1] = MyBool(cell.isNull)]
                 /\ dbResult' = "ok"
                 /\ sent' = NoStatement
                 /\ \E g \in BOOLEAN :
                       ret' = IF cell.isNull
                              THEN [call |-> "getColumnByPos", pos |-> pos,
                                    kind |-> "stale"]
                              ELSE [call |-> "getColumnByPos", pos |-> pos,
                                    kind |-> "value",
                                    v |-> FetchedValue(MysqlType(T), cell),
                                    junk |-> cell.junk \/ (StaticOverWrites(T) /\ g)]
    /\ UNCHANGED <<readonly, db, insertTable, inputVars, queryTables, outColumns,
                   outputVars, whereClause, groupBy, orderBy, statement, lastRow, touched, reused>>
    /\ UNCHANGED <<openStmts, tableRows, result, cursor, numResultFields, dests,
                   fetches>>
    /\ UNCHANGED <<persistVars, regVars, backendVars>>

\* columnIsNull(pos): returns _fieldNulls[pos] unless pos > _numResultFields
ColumnIsNull(pos) ==
    /\ IF numResultFields = IndeterminateInt
       THEN DbUndefined
       ELSE IF pos > numResultFields
       THEN /\ DbError
            /\ UNCHANGED ret
       ELSE IF pos + 1 \notin DOMAIN fieldNulls
       THEN DbUndefined
       ELSE /\ \E b \in BOOLEAN :
                 ret' = [call |-> "columnIsNull", pos |-> pos, kind |-> "bool",
                         v |-> IF fieldNulls[pos + 1] = IndeterminateInt THEN b
                               ELSE fieldNulls[pos + 1] # 0]
            /\ dbResult' = "ok"
            /\ sent' = NoStatement
    /\ UNCHANGED <<readonly, db, insertTable, inputVars, queryTables, outColumns,
                   outputVars, whereClause, groupBy, orderBy, statement, lastRow, touched, reused>>
    /\ UNCHANGED <<openStmts, tableRows, result, cursor, numResultFields,
                   fieldNulls, dests, fetches>>
    /\ UNCHANGED <<persistVars, regVars, backendVars>>

\* ------------------------------------------------------------------------
\* Initial states and specifications
\* ------------------------------------------------------------------------
WhereTexts == UNION {[1..n -> WhereChars] : n \in 0..MaxWhereLen}

\* ------------------------------------------------------------------------
\* StorageRegistry and the file-based Storage subclasses
\* ------------------------------------------------------------------------
\* the names StorageRegistry::createInstance compares its argument with
StorageNames ==
    {"BoostStorage", "DbStorage", "DbTsvStorage", "FitsStorage", "XmlStorage"}

\* names a caller may pass: the subclass names, the names of the variants in
\* the specification, and other text
VariantNames ==
    {"archive-file", "xml-file", "relational-database", "bulk-load-database",
     "flat-image"}

CreateNames == StorageNames \cup VariantNames \cup {"", "booststorage"}

\* the Storage subclass that implements each variant
VariantClass(v) ==
    CASE v = "archive-file" -> "BoostStorage"
      [] v = "xml-file" -> "XmlStorage"
      [] v = "relational-database" -> "DbStorage"
      [] v = "bulk-load-database" -> "DbTsvStorage"
      [] v = "flat-image" -> "FitsStorage"

\* the if / else-if chain of createInstance: the names it constructs for
Recognized_variantNames == VariantNames

Recognized == StorageNames

\* a null _ostream; a live one is named by the resolved path of its file
NoStream == <<>>

\* a stream object whose file could not be opened
FailedStream == << <<"fail">> >>

\* a Storage subclass instance after its constructor: no stream, no archive
\* (BoostStorage, XmlStorage); the other subclasses hold no stream at all
NewStorage(kind) ==
    [kind |-> kind, ostream |-> NoStream, oarchive |-> FALSE,
     istream |-> FALSE, iarchive |-> FALSE]

\* the file system with nothing but the root and the working directory
EmptyFs == [p \in {} |-> "dir"]

\* StorageRegistry::createInstance(name)
CreateInstance(name) ==
    /\ name \in Recognized => Len(storages) < MaxInstances
    /\ IF name \in Recognized
       THEN /\ storages' = Append(storages,
                   NewStorage(IF name \in StorageNames THEN name
                              ELSE VariantClass(name)))
            /\ created' = [name |-> name, at |-> Len(storages), error |-> "none"]
       ELSE /\ storages' = storages
            /\ created' = [name |-> name, at |-> Len(storages),
                           error |-> "std::invalid_argument"]
    /\ UNCHANGED <<fs, located>>
    /\ UNCHANGED <<persistVars, regVars, dbVars, tsvVars, instant, archive>>

\* --- path names and the file system -------------------------------------
\* A path name is a sequence of characters; "/" separates components.
Slash == "/"

PathNames ==
    {<<"a">>, <<"b">>, <<"a", "/", "b">>, <<"a", "/", "a", "/", "b">>,
     <<"a", "/", "/", "b">>, <<"/", "b">>, <<"/", "a", "/", "b">>,
     <<"a", "/">>}

\* std::string::find_last_of('/'): 1-based index of the last slash, 0 for npos
FindLastOf(name) ==
    IF \E i \in DOMAIN name : name[i] = Slash
    THEN CHOOSE i \in DOMAIN name :
             name[i] = Slash /\ \A j \in DOMAIN name : name[j] = Slash => j <= i
    ELSE 0

\* name.substr(0, pos) for the 0-based pos of the last slash
DirName(name) == SubSeq(name, 1, FindLastOf(name) - 1)

\* the components of a path name: the text between slashes, empty ones dropped
RECURSIVE Components(_)
Components(name) ==
    IF name = <<>> THEN <<>>
    ELSE IF FindLastOf(name) = 0 THEN <<name>>
    ELSE LET tail == SubSeq(name, FindLastOf(name) + 1, Len(name))
         IN  Components(DirName(name)) \o (IF tail = <<>> THEN <<>> ELSE <<tail>>)

\* what the kernel resolves a non-empty path name to: the root or the working
\* directory followed by the components
Resolve(name) ==
    <<IF name[1] = Slash THEN <<Slash>> ELSE <<".">> >> \o Components(name)

\* the entry at a resolved path: the two starting points always exist
Entry(f, p) ==
    IF Len(p) = 1 THEN "dir" ELSE IF p \in DOMAIN f THEN f[p] ELSE "ENOENT"

\* the error of walking to the parent of p, "none" if every ancestor is a
\* directory
WalkError(f, p) ==
    IF \E k \in 1..(Len(p) - 1) : Entry(f, SubSeq(p, 1, k)) # "dir"
    THEN LET k == CHOOSE k \in 1..(Len(p) - 1) :
                      /\ Entry(f, SubSeq(p, 1, k)) # "dir"
                      /\ \A j \in 1..(k - 1) : Entry(f, SubSeq(p, 1, j)) = "dir"
         IN  IF Entry(f, SubSeq(p, 1, k)) = "ENOENT" THEN "ENOENT" ELSE "ENOTDIR"
    ELSE "none"

\* ::stat(name): "dir", "archive" or "empty" for an entry, or the errno
Stat(f, name) ==
    IF name = <<>> THEN "ENOENT"
    ELSE LET p == Resolve(name)
         IN  IF WalkError(f, p) # "none" THEN WalkError(f, p)
             ELSE IF name[Len(name)] = Slash /\ Entry(f, p) \in {"archive", "empty"}
                  THEN "ENOTDIR"
                  ELSE Entry(f, p)

\* ::mkdir(name, 0777): the errno ("none" on success) and the file system after
Mkdir(f, name) ==
    IF name = <<>> THEN [errno |-> "ENOENT", fs |-> f]
    ELSE LET p == Resolve(name)
         IN  IF WalkError(f, p) # "none" THEN [errno |-> WalkError(f, p), fs |-> f]
             ELSE IF Entry(f, p) # "ENOENT" THEN [errno |-> "EEXIST", fs |-> f]
             ELSE [errno |-> "none",
                   fs |-> [q \in DOMAIN f \cup {p} |-> IF q = p THEN "dir" ELSE f[q]]]

\* the mkdir results verifyPathName accepts
MkdirAccepted == {"none", "EEXIST"}

\* Storage::verifyPathName(name): the error thrown ("none" on return) and the
\* file system after
RECURSIVE VerifyPathName(_, _)
VerifyPathName(f, name) ==
    IF FindLastOf(name) = 0 THEN [error |-> "none", fs |-> f]
    ELSE LET dirName == DirName(name)
             found == Stat(f, dirName)
         IN  IF found = "ENOENT"
             THEN LET parent == VerifyPathName(f, dirName)
                      made == Mkdir(parent.fs, dirName)
                  IN  IF parent.error # "none" THEN parent
                      ELSE IF made.errno \notin MkdirAccepted
                      THEN [error |-> "RuntimeError", fs |-> made.fs]
                      ELSE [error |-> "none", fs |-> made.fs]
             ELSE IF found # "dir"
             THEN [error |-> "RuntimeError", fs |-> f]
             ELSE [error |-> "none", fs |-> f]

\* new std::ofstream(name): the file is created or truncated when it can be
\* opened for writing; the stream object exists either way
CanOpenForWrite(f, name) ==
    /\ name # <<>>
    /\ name[Len(name)] # Slash
    /\ WalkError(f, Resolve(name)) = "none"
    /\ Entry(f, Resolve(name)) # "dir"

OpenForWrite(f, name) ==
    IF CanOpenForWrite(f, name)
    THEN [q \in DOMAIN f \cup {Resolve(name)} |->
              IF q = Resolve(name) THEN "empty" ELSE f[q]]
    ELSE f

\* destroying a std::ofstream flushes what the archive wrote into its file
CloseStream(f, stream) ==
    IF stream \in DOMAIN f THEN [f EXCEPT ![stream] = "archive"] ELSE f

\* --- BoostStorage and XmlStorage ----------------------------------------
StreamKinds == {"BoostStorage", "XmlStorage"}

NotLocated == [op |-> "none", inst |-> 0, name |-> <<>>, error |-> "none"]

\* setPersistLocation(location): verifyPathName, then _ostream.reset(new
\* std::ofstream) and _oarchive.reset(new archive(*_ostream)).  The archive
\* constructor writes its header and throws on a stream that did not open.
\* Replacing _ostream while an archive made on the old stream is alive lets
\* that archive's destructor use a destroyed stream.
SetPersistLocation(i, name) ==
    LET s == storages[i]
        v == VerifyPathName(fs, name)
        closed == CloseStream(v.fs, s.ostream)
    IN  /\ s.kind \in StreamKinds
        /\ IF v.error # "none"
           THEN /\ fs' = v.fs
                /\ storages' = storages
                /\ located' = [op |-> "setPersistLocation", inst |-> i,
                               name |-> name, error |-> v.error]
           ELSE /\ fs' = OpenForWrite(closed, name)
                /\ IF CanOpenForWrite(closed, name)
                   THEN /\ storages' = [storages EXCEPT ![i].ostream = Resolve(name),
                                                         ![i].oarchive = TRUE]
                        /\ located' \in
                               {[op |-> "setPersistLocation", inst |-> i,
                                 name |-> name, error |-> e] :
                                    e \in IF s.oarchive THEN {"none", "undefined"}
                                          ELSE {"none"}}
                   ELSE /\ storages' = [storages EXCEPT ![i].ostream = FailedStream]
                        /\ located' = [op |-> "setPersistLocation", inst |-> i,
                                       name |-> name, error |-> "archive_exception"]
        /\ UNCHANGED created
        /\ UNCHANGED <<persistVars, regVars, dbVars, tsvVars, instant, archive>>

\* BoostStorage::setRetrieveLocation tests ::access(fname, R_OK | F_OK);
\* XmlStorage::setRetrieveLocation does not
AccessChecked(kind) == kind = "BoostStorage"

\* setRetrieveLocation(location): _istream.reset(new std::ifstream) and
\* _iarchive.reset(new archive(*_istream)).  The archive constructor reads the
\* header and throws when the file does not hold one.
SetRetrieveLocation(i, name) ==
    LET s == storages[i]
        found == Stat(fs, name)
    IN  /\ s.kind \in StreamKinds
        /\ IF AccessChecked(s.kind) /\ found \in {"ENOENT", "ENOTDIR"}
           THEN /\ storages' = storages
                /\ located' = [op |-> "setRetrieveLocation", inst |-> i,
                               name |-> name, error |-> "NotFoundException"]
           ELSE IF found = "archive"
           THEN /\ storages' = [storages EXCEPT ![i].istream = TRUE,
                                                 ![i].iarchive = TRUE]
                /\ located' \in
                       {[op |-> "setRetrieveLocation", inst |-> i,
                         name |-> name, error |-> e] :
                            e \in IF s.iarchive THEN {"none", "undefined"}
                                  ELSE {"none"}}
           ELSE /\ storages' = [storages EXCEPT ![i].istream = TRUE]
                /\ located' = [op |-> "setRetrieveLocation", inst |-> i,
                               name |-> name, error |-> "archive_exception"]
        /\ UNCHANGED <<created, fs>>
        /\ UNCHANGED <<persistVars, regVars, dbVars, tsvVars, instant, archive>>

\* endTransaction(): the archives, then the streams, are destroyed
StreamEndTransaction(i) ==
    /\ storages[i].kind \in StreamKinds
    /\ storages' = [storages EXCEPT ![i] = NewStorage(storages[i].kind)]
    /\ fs' = CloseStream(fs, storages[i].ostream)
    /\ located' = [op |-> "endTransaction", inst |-> i, name |-> <<>>,
                   error |-> "none"]
    /\ UNCHANGED created
    /\ UNCHANGED <<persistVars, regVars, dbVars, tsvVars, instant, archive>>

\* --- DbTsvStorage ---------------------------------------------------------
\* Column values are text; a staging file and a char* _fileName are named by
\* the number mkstemp() made the name unique with, 0 standing for a pointer
\* that is uninitialised or was deleted.
TsvTables == {"T", "U"}
TsvColumns == {"x", "y"}
TsvValues == {"1", "2"}
NoFileName == 0

\* _osp: null, or a stream on a staging file
NullStream == [file |-> 0, open |-> FALSE]

\* a DbTsvStorage after the constructor, setPolicy() and setPersistLocation()
NewTsvStorage(saveTemp) ==
    [persisting |-> TRUE, saveTemp |-> saveTemp, tableName |-> "",
     fileName |-> NoFileName, osp |-> NullStream,
     colMap |-> [c \in {} |-> 0], rowBuffer |-> <<>>]

NoTsvLog == [phase |-> "idle", inserted |-> <<>>, files |-> {}, made |-> 0,
             result |-> "none"]

NoTsvStorage ==
    /\ tsv = NewTsvStorage(FALSE)
    /\ staging = [f \in {} |-> <<>>]
    /\ loads = <<>>
    /\ tsvLog = NoTsvLog

\* startTransaction(): nothing is done when persisting
TsvStartTransaction ==
    /\ tsvLog.phase = "idle"
    /\ tsvLog' = [tsvLog EXCEPT !.phase = "active"]
    /\ UNCHANGED <<tsv, staging, loads>>
    /\ UNCHANGED <<persistVars, regVars, dbVars, fileVars, instant, archive>>

\* setTableForInsert(tableName): a new staging file is made with mkstemp() and
\* _fileName and _osp are replaced; the old name is not deleted or unlinked
TsvSetTableForInsert(t) ==
    LET f == tsvLog.made + 1
    IN  /\ tsvLog.phase = "active"
        /\ tsvLog.made < MaxStagingFiles
        /\ tsv' = [tsv EXCEPT !.tableName = t, !.fileName = f,
                              !.osp = [file |-> f, open |-> TRUE]]
        /\ staging' = [g \in DOMAIN staging \cup {f} |->
                           IF g = f THEN <<>> ELSE staging[g]]
        /\ tsvLog' = [tsvLog EXCEPT !.made = f, !.files = @ \cup {f}]
        /\ UNCHANGED loads
        /\ UNCHANGED <<persistVars, regVars, dbVars, fileVars, instant, archive>>

\* _getColumnIndex(columnName), 1-based; colMap and rowBuffer after it
GetColumnIndex(m, c) ==
    IF c \in DOMAIN m.colMap THEN m.colMap[c] ELSE Len(m.rowBuffer) + 1

\* the members after _rowBuffer[_getColumnIndex(columnName)] = text
WithColumn(m, c, text) ==
    [m EXCEPT !.colMap = [d \in DOMAIN m.colMap \cup {c} |-> GetColumnIndex(m, d)],
              !.rowBuffer = [k \in 1..(IF c \in DOMAIN m.colMap THEN Len(m.rowBuffer)
                                       ELSE Len(m.rowBuffer) + 1) |->
                                IF k = GetColumnIndex(m, c) THEN text
                                ELSE m.rowBuffer[k]]]

\* setColumn<T>(columnName, value)
TsvSetColumn(c, v) ==
    /\ tsvLog.phase = "active"
    /\ tsv' = WithColumn(tsv, c, v)
    /\ UNCHANGED <<staging, loads, tsvLog>>
    /\ UNCHANGED <<persistVars, regVars, dbVars, fileVars, instant, archive>>

\* setColumnToNull(columnName)
TsvSetColumnToNull(c) ==
    /\ tsvLog.phase = "active"
    /\ tsv' = WithColumn(tsv, c, "\\N")
    /\ UNCHANGED <<staging, loads, tsvLog>>
    /\ UNCHANGED <<persistVars, regVars, dbVars, fileVars, instant, archive>>

\* the file after insertRow() wrote the row buffer, tab-separated, and endl
RowWritten(file, row) == Append(file, row)

\* insertRow().  Writing through a null _osp is undefined.
TsvInsertRow ==
    /\ tsvLog.phase = "active"
    /\ Len(tsvLog.inserted) < MaxStagedRows
    /\ IF tsv.osp = NullStream
       THEN /\ tsvLog' = [tsvLog EXCEPT !.phase = "ended", !.result = "undefined",
                                        !.inserted = Append(@, tsv.rowBuffer)]
            /\ staging' = staging
       ELSE /\ tsvLog' = [tsvLog EXCEPT !.inserted = Append(@, tsv.rowBuffer)]
            /\ staging' = [staging EXCEPT ![tsv.osp.file] =
                               RowWritten(@, tsv.rowBuffer)]
    /\ UNCHANGED <<tsv, loads>>
    /\ UNCHANGED <<persistVars, regVars, dbVars, fileVars, instant, archive>>

\* the column names in row-buffer order, as endTransaction() lists them
ColumnList(m) ==
    [k \in 1..Len(m.rowBuffer) |-> CHOOSE c \in DOMAIN m.colMap : m.colMap[c] = k]

\* what the server may answer: connected and loaded, no connection, or the
\* LOAD DATA statement failed
LoadOutcomes == {"ok", "connect failed", "load failed"}

\* whether endTransaction() unlinks the staging file after the load
Unlinks(m) == ~m.saveTemp

\* endTransaction() when persisting: close the stream, connect, LOAD DATA
\* LOCAL INFILE '_fileName' REPLACE INTO TABLE _tableName (columns), unlink
\* the file unless SaveTemp, delete[] _fileName.  _osp->close() on a null _osp
\* is undefined.
TsvEndTransaction(outcome) ==
    /\ tsvLog.phase = "active"
    /\ IF tsv.osp = NullStream
       THEN /\ tsvLog' = [tsvLog EXCEPT !.phase = "ended", !.result = "undefined"]
            /\ UNCHANGED <<tsv, staging, loads>>
       ELSE IF outcome = "connect failed"
       THEN /\ tsvLog' = [tsvLog EXCEPT !.phase = "ended", !.result = "RuntimeError"]
            /\ tsv' = [tsv EXCEPT !.osp.open = FALSE]
            /\ UNCHANGED <<staging, loads>>
       ELSE IF outcome = "load failed"
       THEN /\ tsvLog' = [tsvLog EXCEPT !.phase = "ended", !.result = "RuntimeError"]
            /\ tsv' = [tsv EXCEPT !.osp.open = FALSE,
                                  !.rowBuffer = ColumnList(tsv)]
            /\ UNCHANGED <<staging, loads>>
       ELSE /\ tsvLog' = [tsvLog EXCEPT !.phase = "ended", !.result = "ok"]
            /\ tsv' = [tsv EXCEPT !.osp.open = FALSE,
                                  !.rowBuffer = ColumnList(tsv),
                                  !.fileName = NoFileName]
            /\ loads' = Append(loads, [table |-> tsv.tableName,
                                       file |-> tsv.fileName,
                                       columns |-> ColumnList(tsv),
                                       rows |-> staging[tsv.fileName]])
            /\ staging' = IF Unlinks(tsv)
                          THEN [g \in DOMAIN staging \ {tsv.fileName} |-> staging[g]]
                          ELSE staging
    /\ UNCHANGED <<persistVars, regVars, dbVars, fileVars, instant, archive>>

NoInstant == [at |-> "none"]

\* --- DateTime --------------------------------------------------------------
\* leapSecTable: days since the epoch and the leap seconds in force from then
leapSecTable ==
    << [when |-> 730, secs |-> 10], [when |-> 912, secs |-> 11],
       [when |-> 1096, secs |-> 12], [when |-> 1461, secs |-> 13],
       [when |-> 1826, secs |-> 14], [when |-> 2191, secs |-> 15],
       [when |-> 2557, secs |-> 16], [when |-> 2922, secs |-> 17],
       [when |-> 3287, secs |-> 18], [when |-> 3652, secs |-> 19],
       [when |-> 4199, secs |-> 20], [when |-> 4564, secs |-> 21],
       [when |-> 4929, secs |-> 22], [when |-> 5660, secs |-> 23],
       [when |-> 6574, secs |-> 24], [when |-> 7305, secs |-> 25],
       [when |-> 7670, secs |-> 26], [when |-> 8217, secs |-> 27],
       [when |-> 8582, secs |-> 28], [when |-> 8947, secs |-> 29],
       [when |-> 9496, secs |-> 30], [when |-> 10043, secs |-> 31],
       [when |-> 10592, secs |-> 32], [when |-> 13149, secs |-> 33] >>

LEAP_SECS == Len(leapSecTable)

\* LL_NSEC_PER_DAY, in seconds
SecPerDay == 86400

\* A DateTime holds _nsecs, a 64-bit count; it is kept here as whole seconds
\* and the nanoseconds within the second.  Every threshold and every table
\* offset is a whole number of seconds, so the table branches leave nanos as
\* it is.  exact is FALSE for a value computed in floating point by the
\* empirical formula, whose secs is then right to within two seconds.
DateTimeOf(secs, nanos) == [secs |-> secs, nanos |-> nanos, exact |-> TRUE]

\* (utc2mjd() - 39126.0) * 0.002592 + 4.21317, in whole seconds
EmpiricalLeapSecs(secs) == 8 + (secs * 30 + 82000) \div 1000000000

\* the last loop index of `for (i = 1; i < LEAP_SECS - 1; ++i)`, as a 1-based
\* table index
LastLoopIndex == LEAP_SECS - 1

\* The table row (1-based) whose offset the loop of utc2tai / tai2utc returns
\* for a count that is not below the first threshold; threshold[j] is the
\* threshold of row j in seconds.
RowReturned(secs, threshold) ==
    IF \E j \in 2..LastLoopIndex : secs < threshold[j]
    THEN (CHOOSE j \in 2..LastLoopIndex :
              /\ secs < threshold[j]
              /\ \A k \in 2..(j - 1) : ~(secs < threshold[k])) - 1
    ELSE LEAP_SECS

\* leapSecTable[i].when * LL_NSEC_PER_DAY
UtcThreshold(j) == leapSecTable[j].when * SecPerDay

\* leapSecTable[i].when * LL_NSEC_PER_DAY + leapSecTable[i].secs * 1000000000LL
TaiThreshold(j) == leapSecTable[j].when * SecPerDay + leapSecTable[j].secs

\* DateTime::utc2tai()
Utc2Tai(d) ==
    IF d.secs < UtcThreshold(1)
    THEN [secs |-> d.secs - EmpiricalLeapSecs(d.secs), nanos |-> d.nanos,
          exact |-> FALSE]
    ELSE [d EXCEPT !.secs = @ - leapSecTable[RowReturned(d.secs, [j \in 1..LEAP_SECS |-> UtcThreshold(j)])].secs]

\* DateTime::tai2utc(): below the first threshold
\* (_nsecs - 4.21317e9 - (EPOCH_IN_MJD - 39126.0) * 0.002592e9) /
\* (1 - 0.002592e9 / NSEC_PER_DAY)
Tai2Utc(d) ==
    IF d.secs < TaiThreshold(1)
    THEN [secs |-> (d.secs - 9) + ((d.secs - 9) * 30) \div 1000000000,
          nanos |-> d.nanos, exact |-> FALSE]
    ELSE [d EXCEPT !.secs = @ + leapSecTable[RowReturned(d.secs, [j \in 1..LEAP_SECS |-> TaiThreshold(j)])].secs]

\* the instants converted: on each breakpoint, one second and one day after
\* it, and before the first breakpoint; with and without a sub-second part
Instants ==
    {DateTimeOf(UtcThreshold(j) + after, nanos) :
        j \in 1..LEAP_SECS, after \in {0, 1, SecPerDay}, nanos \in {0, 999999999}}
    \cup {DateTimeOf(secs, nanos) :
        secs \in {0, SecPerDay, UtcThreshold(1) - 1}, nanos \in {0, 999999999}}

\* DateTime(nsecs).utc2tai()
ConvertUtc2Tai ==
    /\ instant.at = "utc"
    /\ instant' = [at |-> "tai", utc |-> instant.utc, tai |-> Utc2Tai(instant.utc)]
    /\ UNCHANGED archive
    /\ UNCHANGED <<persistVars, regVars, dbVars, fileVars, tsvVars>>

\* the divisor of `_nsecs % 10000000000LL` in timeval(), in seconds
TimevalModulusSecs == 10

\* timeval(): tv_sec = _nsecs / 1000000000LL and
\* tv_usec = (_nsecs % 10000000000LL) / 1000, for a count that is not negative.
\* The remainder is (secs % 10) seconds and nanos nanoseconds; it is divided
\* by 1000 part by part, the seconds being a whole number of microseconds.
Timeval(d) ==
    [tv_sec |-> d.secs,
     tv_usec |-> (d.secs % TimevalModulusSecs) * (NsPerSec \div 1000)
                    + d.nanos \div 1000]

\* DateTime(nsecs).timeval()
TakeTimeval ==
    /\ instant.at = "utc"
    /\ instant' = [at |-> "timeval", utc |-> instant.utc, tv |-> Timeval(instant.utc)]
    /\ UNCHANGED archive
    /\ UNCHANGED <<persistVars, regVars, dbVars, fileVars, tsvVars>>

\* .tai2utc() on the result
ConvertTai2Utc ==
    /\ instant.at = "tai"
    /\ instant' = [at |-> "back", utc |-> instant.utc, tai |-> instant.tai,
                   back |-> Tai2Utc(instant.tai)]
    /\ UNCHANGED archive
    /\ UNCHANGED <<persistVars, regVars, dbVars, fileVars, tsvVars>>

NoArchive == [at |-> "none"]

\* --- PropertySetFormatter: the archive format ------------------------------
\* names of the entries of the property set saved
PropertyNames == {"a", "b"}

\* the types delegateSerialize gives a tag
SupportedTypes ==
    {"bool", "char", "signed char", "unsigned char", "short", "unsigned short",
     "int", "unsigned int", "long", "unsigned long", "long long",
     "unsigned long long", "float", "double", "std::string", "DateTime",
     "Persistable::Ptr"}

\* the tag chosen for typeOf(name) when saving; "?" stands for the branch
\* that throws
TagOf(T) ==
    CASE T = "bool" -> "b"
      [] T = "char" -> "c"
      [] T = "signed char" -> "y"
      [] T = "unsigned char" -> "C"
      [] T = "short" -> "w"
      [] T = "unsigned short" -> "W"
      [] T = "int" -> "i"
      [] T = "unsigned int" -> "I"
      [] T = "long" -> "l"
      [] T = "unsigned long" -> "L"
      [] T = "long long" -> "x"
      [] T = "unsigned long long" -> "X"
      [] T = "float" -> "f"
      [] T = "double" -> "d"
      [] T = "std::string" -> "s"
      [] T = "DateTime" -> "T"
      [] T = "Persistable::Ptr" -> "p"
      [] OTHER -> "?"

\* the switch with the tag of 'W' read as a short
ItemType_shortForW(tag) ==
    CASE tag = "b" -> "bool"
      [] tag = "c" -> "char"
      [] tag = "y" -> "signed char"
      [] tag = "C" -> "unsigned char"
      [] tag \in {"w", "W"} -> "short"
      [] tag = "i" -> "int"
      [] tag = "I" -> "unsigned int"
      [] tag = "l" -> "long"
      [] tag = "L" -> "unsigned long"
      [] tag = "x" -> "long long"
      [] tag = "X" -> "unsigned long long"
      [] tag = "f" -> "float"
      [] tag = "d" -> "double"
      [] tag = "s" -> "std::string"
      [] tag = "T" -> "DateTime"
      [] tag = "p" -> "Persistable::Ptr"
      [] OTHER -> "unknown"

\* the T of the serializeItem<Archive, T> that `switch (type)` calls;
\* "unknown" stands for the default branch, which throws
ItemType(tag) ==
    CASE tag = "b" -> "bool"
      [] tag = "c" -> "char"
      [] tag = "y" -> "signed char"
      [] tag = "C" -> "unsigned char"
      [] tag = "w" -> "short"
      [] tag = "W" -> "unsigned short"
      [] tag = "i" -> "int"
      [] tag = "I" -> "unsigned int"
      [] tag = "l" -> "long"
      [] tag = "L" -> "unsigned long"
      [] tag = "x" -> "long long"
      [] tag = "X" -> "unsigned long long"
      [] tag = "f" -> "float"
      [] tag = "d" -> "double"
      [] tag = "s" -> "std::string"
      [] tag = "T" -> "DateTime"
      [] tag = "p" -> "Persistable::Ptr"
      [] OTHER -> "unknown"

\* One element of a value.  n is the number of a numeric element, the
\* nanosecond count of a DateTime and the address of a Persistable::Ptr; s is
\* the text of a std::string and the content of the object a
\* Persistable::Ptr points to.
Elem(n, s) == [n |-> n, s |-> s]

\* An entry of a PropertySet: the type of its elements and the vector of them
Entry_(T, value) == [type |-> T, value |-> value]

\* the entries a property set is filled with: one of each supported type, a
\* vector of two elements, and one of a type without a tag
PropertyValues ==
    {Entry_("bool", <<Elem(1, "")>>), Entry_("char", <<Elem(120, "")>>),
     Entry_("signed char", <<Elem(-121, "")>>),
     Entry_("unsigned char", <<Elem(200, "")>>),
     Entry_("short", <<Elem(-2009, "")>>),
     Entry_("short", <<Elem(-2009, ""), Elem(7, "")>>),
     Entry_("unsigned short", <<Elem(40109, "")>>),
     Entry_("int", <<Elem(-70000, "")>>),
     Entry_("unsigned int", <<Elem(70000, "")>>),
     Entry_("long", <<Elem(-70001, "")>>),
     Entry_("unsigned long", <<Elem(70001, "")>>),
     Entry_("long long", <<Elem(-70002, "")>>),
     Entry_("unsigned long long", <<Elem(70002, "")>>),
     Entry_("float", <<Elem(3, "")>>), Entry_("double", <<Elem(2, "")>>),
     Entry_("std::string", <<Elem(0, "Testing")>>),
     Entry_("DateTime", <<Elem(1500000000, "")>>),
     Entry_("Persistable::Ptr", <<Elem(1, "object")>>),
     Entry_("long double", <<Elem(1, "")>>)}

\* the width in bits of the integer types narrower than an int, and whether
\* they are signed (char is signed on the platforms the package builds on)
NarrowBits(T) == IF T \in {"char", "signed char", "unsigned char"} THEN 8 ELSE 16

NarrowTypes == {"char", "signed char", "unsigned char", "short", "unsigned short"}

\* the value of type T an archive primitive is read as
ReadAs(T, tok) ==
    IF T \in {"unsigned char", "unsigned short"}
    THEN Elem(tok.n % (2 ^ NarrowBits(T)), tok.s)
    ELSE IF T \in NarrowTypes
    THEN Elem(((tok.n + 2 ^ (NarrowBits(T) - 1)) % (2 ^ NarrowBits(T)))
                  - 2 ^ (NarrowBits(T) - 1), tok.s)
    ELSE tok

\* serializeItem<Archive, T> and serializeDateTime<Archive>, saving: the
\* vector written for the entry.  A DateTime is written as its nsecs(), a
\* Persistable::Ptr as the object it points to.
SaveItem(entry) ==
    [i \in DOMAIN entry.value |->
        IF entry.type = "Persistable::Ptr"
        THEN Elem(0, entry.value[i].s)
        ELSE entry.value[i]]

\* the same loading: the vector read as a vector of T, set under the name.
\* The object a Persistable::Ptr points to is made anew, at another address.
LoadItem(T, written) ==
    Entry_(T, [i \in DOMAIN written |->
                  IF T = "Persistable::Ptr"
                  THEN Elem(2, written[i].s)
                  ELSE ReadAs(T, written[i])])

\* ps->set(name, value)
SetEntry(ps, name, entry) ==
    [n \in DOMAIN ps \cup {name} |-> IF n = name THEN entry ELSE ps[n]]

\* the orders paramNames(false) can list the names in
NameOrders(ps) ==
    {order \in UNION {[1..k -> DOMAIN ps] : k \in {Cardinality(DOMAIN ps)}} :
        \A i, j \in DOMAIN order : order[i] = order[j] => i = j}

\* delegateSerialize, saving: the records written for names[from..], up to
\* the first entry whose type has no tag
RECURSIVE SaveRecords(_, _, _)
SaveRecords(ps, names, from) ==
    IF from > Len(names) THEN [records |-> <<>>, error |-> "none"]
    ELSE IF TagOf(ps[names[from]].type) = "?"
    THEN [records |-> <<>>, error |-> "RuntimeError"]
    ELSE LET rest == SaveRecords(ps, names, from + 1) IN
         [records |-> << [name |-> names[from],
                          type |-> TagOf(ps[names[from]].type),
                          value |-> SaveItem(ps[names[from]])] >> \o rest.records,
          error |-> rest.error]

\* delegateSerialize, loading: records[from..] read into ps, up to the first
\* record with a tag `switch (type)` has no case for
RECURSIVE LoadRecords(_, _, _)
LoadRecords(ps, records, from) ==
    IF from > Len(records) THEN [ps |-> ps, error |-> "none"]
    ELSE IF ItemType(records[from].type) = "unknown"
    THEN [ps |-> ps, error |-> "RuntimeError"]
    ELSE LoadRecords(SetEntry(ps, records[from].name,
                              LoadItem(ItemType(records[from].type),
                                       records[from].value)),
                     records, from + 1)

\* a PropertySet without entries, as read() makes
EmptyPropertySet == [n \in {} |-> Entry_("bool", <<>>)]

\* the property sets handed to write()
PropertySets ==
    UNION {[names -> PropertyValues] : names \in SUBSET PropertyNames}

\* PropertySetFormatter::write to a BoostStorage or an XmlStorage:
\* delegateSerialize on an output archive.  The archive holds the count of
\* names, then a record for each name.
SaveArchive ==
    /\ archive.at = "set"
    /\ \E names \in NameOrders(archive.ps) :
          LET saved == SaveRecords(archive.ps, names, 1) IN
          archive' = [at |-> IF saved.error = "none" THEN "saved" ELSE "save failed",
                      ps |-> archive.ps,
                      out |-> [nitems |-> Len(names), records |-> saved.records],
                      error |-> saved.error]
    /\ UNCHANGED instant
    /\ UNCHANGED <<persistVars, regVars, dbVars, fileVars, tsvVars>>

\* PropertySetFormatter::read from a BoostStorage or an XmlStorage:
\* delegateSerialize on an input archive into a new PropertySet
LoadArchive ==
    /\ archive.at = "saved"
    /\ LET loaded == LoadRecords(EmptyPropertySet, archive.out.records, 1) IN
       archive' = [at |-> "loaded", ps |-> archive.ps, out |-> archive.out,
                   loaded |-> loaded.ps, error |-> loaded.error]
    /\ UNCHANGED instant
    /\ UNCHANGED <<persistVars, regVars, dbVars, fileVars, tsvVars>>

\* no Storage backend has been created
NoBackends ==
    /\ storages = <<>>
    /\ created = [name |-> "none", at |-> 0, error |-> "none"]
    /\ fs = EmptyFs
    /\ located = NotLocated
    /\ NoTsvStorage
    /\ instant = NoInstant
    /\ archive = NoArchive

\* the FormatterRegistry singleton before any registration
InitRegistry ==
    /\ byName = [n \in {} |-> NullPtr]
    /\ nameForType = [t \in {} |-> NullPtr]
    /\ registered = <<>>
    /\ lookup = [by |-> "none", key |-> "none", at |-> 0, error |-> "none",
                 madeBy |-> NullPtr]
    /\ handedOut = <<>>

\* no statement has been initialised, no query executed, no outParam declared
InitCursor ==
    /\ openStmts = 0
    /\ result = NoResult
    /\ cursor = 0
    /\ numResultFields = IndeterminateInt
    /\ fieldNulls = <<>>
    /\ dests = [c \in {} |-> NotDelivered]
    /\ ret = [call |-> "none", kind |-> "void"]
    /\ fetches = <<>>

\* DbStorageImpl(): only _db is initialised; no call has been made yet
InitDbStorageImpl ==
    /\ readonly = FALSE
    /\ db = FALSE
    /\ insertTable = <<>>
    /\ inputVars = [n \in {} |-> NoRow]
    /\ queryTables = <<>>
    /\ outColumns = <<>>
    /\ outputVars = [n \in {} |-> NoRow]
    /\ whereClause = <<>>
    /\ groupBy = <<>>
    /\ orderBy = <<>>
    /\ statement = Uninit
    /\ sent = NoStatement
    /\ dbResult = "ok"
    /\ lastRow = NoRow
    /\ touched = {}
    /\ reused = {}
    /\ InitCursor
    /\ NoBackends
    /\ tableRows = <<>>

InitPersistence ==
    /\ storageList \in UNION {[1..n -> StorageKinds] : n \in 0..MaxStorages}
    /\ stored \in [1..Len(storageList) -> Values]
    /\ fmt \in Formatters
    /\ st = [k \in 1..Len(storageList) |-> InitStorageState]
    /\ pc = "idle"
    /\ it = 1
    /\ iter = -1
    /\ len = 0
    /\ persistable = NullPtr
    /\ objs = <<>>
    /\ trace = <<>>
    /\ done = FALSE
    /\ retrieved = <<>>
    /\ InitRegistry
    /\ InitDbStorageImpl

\* no Persistence call is in progress; a DbStorage is used directly
NoPersistence ==
    /\ storageList = <<>>
    /\ stored = <<>>
    /\ fmt = "MyFormatter"
    /\ st = <<>>
    /\ pc = "idle"
    /\ it = 1
    /\ iter = -1
    /\ len = 0
    /\ persistable = NullPtr
    /\ objs = <<>>
    /\ trace = <<>>
    /\ done = FALSE
    /\ retrieved = <<>>
    /\ InitRegistry

\* a DbStorage after construction and setPersistLocation()
InitInsertDb ==
    /\ NoPersistence
    /\ readonly = FALSE
    /\ db = TRUE
    /\ insertTable = <<>>
    /\ inputVars = [n \in {} |-> NoRow]
    /\ queryTables = <<>>
    /\ outColumns = <<>>
    /\ outputVars = [n \in {} |-> NoRow]
    /\ whereClause = <<>>
    /\ groupBy = <<>>
    /\ orderBy = <<>>
    /\ statement = Uninit
    /\ sent = NoStatement
    /\ dbResult = "ok"
    /\ lastRow = NoRow
    /\ touched = {}
    /\ reused = {}
    /\ InitCursor
    /\ tableRows = <<>>

InitInsert ==
    /\ InitInsertDb
    /\ NoBackends

\* a DbStorage after construction, setRetrieveLocation() and
\* setTableForQuery()
InitQuery ==
    /\ NoPersistence
    /\ readonly = TRUE
    /\ db = TRUE
    /\ insertTable = <<>>
    /\ inputVars = [n \in {} |-> NoRow]
    /\ queryTables = <<Quote(TableName)>>
    /\ outColumns = <<>>
    /\ outputVars = [n \in {} |-> NoRow]
    /\ whereClause = <<>>
    /\ groupBy = <<>>
    /\ orderBy = <<>>
    /\ statement = "null"
    /\ sent = NoStatement
    /\ dbResult = "ok"
    /\ lastRow = NoRow
    /\ touched = {}
    /\ reused = {}
    /\ InitCursor
    /\ NoBackends
    /\ tableRows = <<>>

NextPersist ==
    \/ PersistCall
    \/ PersistNextCall
    \/ PersistStartTransaction
    \/ PersistWrite
    \/ PersistEndTransaction

SpecPersist == InitPersistence /\ [][NextPersist]_vars

NextRetrieve ==
    \/ RetrieveCall
    \/ RetrieveStartTransaction
    \/ RetrieveRead
    \/ RetrieveUpdate
    \/ RetrieveEndTransaction

SpecRetrieve == InitPersistence /\ [][NextRetrieve]_vars

NextRetrieveVector ==
    \/ RetrieveVectorCall
    \/ RetrieveVectorStartTransaction
    \/ RetrieveVectorWhile
    \/ RetrieveVectorRead
    \/ RetrieveVectorUpdate
    \/ RetrieveVectorPushBack
    \/ RetrieveVectorEndTransaction

\* retrieveVector runs on: a step is taken whenever one can be
SpecRetrieveVector ==
    InitPersistence /\ [][NextRetrieveVector]_vars /\ WF_vars(NextRetrieveVector)

NextInsert ==
    \/ SetTableForInsert
    \/ \E n \in InsertColumns : \E tv \in TypedValues : SetColumn(n, tv)
    \/ \E n \in InsertColumns : SetColumnToNull(n)
    \/ InsertRow

SpecInsert == InitInsert /\ [][NextInsert]_vars

\* setColumn() and setColumnToNull() calls in any order, with values of
\* different sizes, up to the insertRow() that sends the first row
NextBind ==
    \/ lastRow = NoRow /\ SetTableForInsert
    \/ lastRow = NoRow /\ \E n \in InsertColumns : \E tv \in BindValues : SetColumn(n, tv)
    \/ lastRow = NoRow /\ \E n \in InsertColumns : SetColumnToNull(n)
    \/ lastRow = NoRow /\ InsertRow

SpecBind == InitInsert /\ [][NextBind]_vars

\* a DbStorage after construction, setRetrieveLocation() and
\* setTableForQuery(), on a table of up to MaxRows rows
InitCursorSpec ==
    /\ NoPersistence
    /\ readonly = TRUE
    /\ db = TRUE
    /\ insertTable = <<>>
    /\ inputVars = [n \in {} |-> NoRow]
    /\ queryTables = <<Quote(TableName)>>
    /\ outColumns = <<>>
    /\ outputVars = [n \in {} |-> NoRow]
    /\ whereClause = <<>>
    /\ groupBy = <<>>
    /\ orderBy = <<>>
    /\ statement = "null"
    /\ sent = NoStatement
    /\ dbResult = "ok"
    /\ lastRow = NoRow
    /\ touched = {}
    /\ reused = {}
    /\ InitCursor
    /\ NoBackends
    /\ tableRows \in UNION {[1..n -> TextRows] : n \in 0..MaxRows}

\* the types the caller reads a text column with
CursorTypes == {"std::string"}

\* positions passed to getColumnByPos() and columnIsNull(), in and out of range
CursorPositions == (-1)..(MaxOutColumns + 1)

\* Queries on one table, in any order of the calls; the table and the SELECT
\* list are set while no statement is open, a query() that would leave one
\* more statement open is made only while fewer than MaxOpenStatements are,
\* and next() is not called again after a fetch that failed in the database.
NextCursor ==
    \/ statement # "open" /\ SetTableForQuery
    \/ statement # "open" /\ \E c \in OutColumnNames : OutColumn(c)
    \/ statement # "open" /\ Len(outColumns) < MaxOutColumns /\
          \E c \in OutColumnNames : \E T \in CursorTypes : OutParam(c, T)
    \/ openStmts < MaxOpenStatements /\ Query
    \/ (\A k \in DOMAIN fetches : fetches[k] # "failed") /\ Next
    \/ \E pos \in CursorPositions : \E T \in CursorTypes : GetColumnByPos(pos, T)
    \/ \E pos \in CursorPositions : ColumnIsNull(pos)
    \/ FinishQuery

SpecCursor == InitCursorSpec /\ [][NextCursor]_vars

\* the column of the table behind position pos of the SELECT list
ColumnAt(pos) == Unquote(outColumns[pos + 1])

\* the row inserted has a value that is not NULL in column c
Wrote(c) == c \in DOMAIN lastRow /\ lastRow[c].buffer_type # "MYSQL_TYPE_NULL"

\* The caller reads a column with the type it was written with.
ReaderTypes(c) ==
    IF lastRow # NoRow /\ Wrote(c)
    THEN {T \in RoundTripTypes : MysqlType(T) = lastRow[c].buffer_type}
    ELSE {"long long"}

\* One row is written into an empty table, each column set once and
\* insertRow() called once, and is then read back through outParam() or
\* getColumnByPos() with up to two next() calls per query, as
\* tests/DbStorage_1.cc does.
NextRoundTrip ==
    \/ insertTable = <<>> /\ SetTableForInsert
    \/ /\ insertTable # <<>> /\ lastRow = NoRow
       /\ \E n \in InsertColumns \ DOMAIN inputVars : \E tv \in RoundTripValues :
             SetColumn(n, tv)
    \/ /\ insertTable # <<>> /\ lastRow = NoRow
       /\ \E n \in InsertColumns \ DOMAIN inputVars : SetColumnToNull(n)
    \/ statement = Uninit /\ InsertRow
    \/ lastRow # NoRow /\ queryTables = <<>> /\ SetTableForQuery
    \/ /\ queryTables # <<>> /\ statement # "open"
       /\ \E c \in InsertColumns : OutColumn(c)
    \/ /\ queryTables # <<>> /\ statement # "open"
       /\ Len(outColumns) < MaxOutColumns
       /\ \E c \in InsertColumns : \E T \in ReaderTypes(c) : OutParam(c, T)
    \/ queryTables # <<>> /\ statement # "open" /\ Query
    \/ Len(fetches) < 2 /\ Next
    \/ \E pos \in CursorPositions :
          \E T \in IF pos + 1 \in DOMAIN outColumns THEN ReaderTypes(ColumnAt(pos))
                   ELSE {"long long"} :
             GetColumnByPos(pos, T)
    \/ \E pos \in CursorPositions : ColumnIsNull(pos)
    \/ FinishQuery

SpecRoundTrip == InitInsert /\ [][NextRoundTrip]_vars

\* createInstance() calls with any names
NextStorageRegistry ==
    \E name \in CreateNames : CreateInstance(name)

SpecStorageRegistry == InitInsert /\ [][NextStorageRegistry]_vars

\* the file systems a program starts in: nothing there, a directory or an
\* archive file in the working directory, a directory under the root
InitialFileSystems ==
    {EmptyFs,
     [p \in {Resolve(<<"a">>)} |-> "dir"],
     [p \in {Resolve(<<"a">>)} |-> "archive"],
     [p \in {Resolve(<<"/", "a">>)} |-> "dir"]}

\* one BoostStorage or XmlStorage that createInstance() returned
InitFileStorage ==
    /\ InitInsertDb
    /\ \E k \in StreamKinds :
          /\ storages = <<NewStorage(k)>>
          /\ created = [name |-> k, at |-> 0, error |-> "none"]
    /\ fs \in InitialFileSystems
    /\ located = NotLocated
    /\ NoTsvStorage
    /\ instant = NoInstant
    /\ archive = NoArchive

\* setPersistLocation(), setRetrieveLocation() and endTransaction() calls on
\* the instance, in any order
NextFileStorage ==
    \/ \E i \in DOMAIN storages : \E name \in PathNames : SetPersistLocation(i, name)
    \/ \E i \in DOMAIN storages : \E name \in PathNames : SetRetrieveLocation(i, name)
    \/ \E i \in DOMAIN storages : StreamEndTransaction(i)

SpecFileStorage == InitFileStorage /\ [][NextFileStorage]_vars

\* one transaction on a persisting DbTsvStorage, with SaveTemp set or not
InitTsvStorage ==
    /\ InitInsertDb
    /\ storages = <<>>
    /\ created = [name |-> "none", at |-> 0, error |-> "none"]
    /\ fs = EmptyFs
    /\ located = NotLocated
    /\ tsv \in {NewTsvStorage(b) : b \in BOOLEAN}
    /\ staging = [f \in {} |-> <<>>]
    /\ loads = <<>>
    /\ tsvLog = NoTsvLog
    /\ instant = NoInstant
    /\ archive = NoArchive

NextTsvStorage ==
    \/ TsvStartTransaction
    \/ \E t \in TsvTables : TsvSetTableForInsert(t)
    \/ \E c \in TsvColumns : \E v \in TsvValues : TsvSetColumn(c, v)
    \/ \E c \in TsvColumns : TsvSetColumnToNull(c)
    \/ TsvInsertRow
    \/ \E outcome \in LoadOutcomes : TsvEndTransaction(outcome)

SpecTsvStorage == InitTsvStorage /\ [][NextTsvStorage]_vars

\* a DateTime constructed from a count of nanoseconds in UTC
InitDateTime ==
    /\ InitInsertDb
    /\ storages = <<>>
    /\ created = [name |-> "none", at |-> 0, error |-> "none"]
    /\ fs = EmptyFs
    /\ located = NotLocated
    /\ NoTsvStorage
    /\ instant \in {[at |-> "utc", utc |-> d] : d \in Instants}
    /\ archive = NoArchive

NextDateTime ==
    \/ ConvertUtc2Tai
    \/ ConvertTai2Utc
    \/ TakeTimeval

SpecDateTime == InitDateTime /\ [][NextDateTime]_vars

\* a PropertySet is written to an archive and read back from it
InitArchive ==
    /\ InitInsertDb
    /\ storages = <<>>
    /\ created = [name |-> "none", at |-> 0, error |-> "none"]
    /\ fs = EmptyFs
    /\ located = NotLocated
    /\ NoTsvStorage
    /\ instant = NoInstant
    /\ archive \in {[at |-> "set", ps |-> ps] : ps \in PropertySets}

NextArchive ==
    \/ SaveArchive
    \/ LoadArchive

SpecArchive == InitArchive /\ [][NextArchive]_vars

\* registerFormatter() and lookupFormatter() calls in any order
NextRegistry ==
    \/ \E n \in PersistableNames : \E t \in TypeIds : \E f \in Factories :
          RegisterFormatter(n, t, f)
    \/ \E n \in LookupNames : LookupFormatterByName(n)
    \/ \E t \in LookupTypeIds : LookupFormatterByType(t)

SpecRegistry == InitInsert /\ [][NextRegistry]_vars

\* The calls up to the first query() that is executed.  The caller sets the
\* WHERE text once per setTableForQuery() and finishes a query that failed
\* before it starts the next one.
NextQuery ==
    \/ ~result.open /\ statement # "open" /\ SetTableForQuery
    \/ ~result.open /\ \E c \in OutColumnNames : OutColumn(c)
    \/ ~result.open /\ \E n \in ColumnNames : \E tv \in CondValues : CondParam(n, tv)
    \/ ~result.open /\ whereClause = <<>> /\ \E w \in WhereTexts : SetQueryWhere(w)
    \/ statement # "open" /\ Query
    \/ ~result.open /\ FinishQuery

SpecQuery == InitQuery /\ [][NextQuery]_vars

\* WHERE texts with and without a parameter
ParamWheres == {<<":", "x">>, <<"x">>}

\* The declarations of a query in any order, with setTableForQuery() and
\* setTableListForQuery() among them, up to the first query() that is
\* executed.
NextQueryState ==
    \/ ~result.open /\ statement # "open" /\ SetTableForQuery
    \/ ~result.open /\ statement # "open" /\ \E L \in TableLists : SetTableListForQuery(L)
    \/ ~result.open /\ \E c \in OutColumnNames : OutColumn(c)
    \/ ~result.open /\ Len(outColumns) < MaxQueryColumns /\
          \E c \in OutColumnNames : \E T \in CursorTypes : OutParam(c, T)
    \/ ~result.open /\ \E tv \in CondValues : CondParam(<<"x">>, tv)
    \/ ~result.open /\ \E w \in ParamWheres : SetQueryWhere(w)
    \/ ~result.open /\ \E e \in Expressions : GroupBy(e)
    \/ ~result.open /\ \E e \in Expressions : OrderBy(e)
    \/ statement # "open" /\ Query

SpecQueryState == InitQuery /\ [][NextQueryState]_vars

\* a DbStorage after construction
InitReadOnly ==
    /\ NoPersistence
    /\ InitDbStorageImpl
    /\ tableRows = <<>>

\* One DbStorage is pointed at a database for persisting and for retrieving,
\* in any order and any number of times, and rows are inserted in between.
\* The caller sets a location before anything else and, after a location call
\* that could not connect, makes another one before it goes on.
NextReadOnly ==
    \/ DbSetPersistLocation
    \/ DbSetRetrieveLocation
    \/ db /\ dbResult # "unconnected" /\ SetTableForInsert
    \/ db /\ dbResult # "unconnected" /\
          \E n \in InsertColumns : \E tv \in CondValues : SetColumn(n, tv)
    \/ db /\ dbResult # "unconnected" /\ InsertRow

SpecReadOnly == InitReadOnly /\ [][NextReadOnly]_vars

\* ------------------------------------------------------------------------
\* Trace helpers used by the properties
\* ------------------------------------------------------------------------
\* positions of the calls named c in the trace
Calls(c) == {p \in 1..Len(trace) : trace[p].call = c}

\* positions of the calls named c that returned normally
Returned(c) == {p \in Calls(c) : trace[p].ok}

\* the calls named c were made on storages 1, 2, ..., n in that order,
\* once each (n = number of such calls)
InListOrder(c) ==
    \A p \in Calls(c) : trace[p].st = Cardinality({q \in Calls(c) : q <= p})

SingleInstance == iter = 0 /\ len = 1

\* ========================================================================
\* Properties of Persistence::persist (checked under SpecPersist)
\* ========================================================================

\* the Storage on which the last call of the trace was made, when that call
\* was a write that threw; 0 otherwise
FailedWriteAt ==
    IF Len(trace) > 0 /\ trace[Len(trace)].call = "write" /\ ~trace[Len(trace)].ok
    THEN trace[Len(trace)].st ELSE 0

StartedBefore(p, k) ==
    \E q \in Returned("startTransaction") : q < p /\ trace[q].st = k

\* C1 (as stated): in a single-instance persist, startTransaction() has
\* returned on every Storage of the list before formatter.write is called on
\* any Storage.
C1_AllStartedBeforeAnyWrite ==
    SingleInstance =>
        \A p \in Calls("write") : \A k \in 1..N : StartedBefore(p, k)

\* C1 (amended): in a single-instance persist, startTransaction() is called on
\* the Storages in list order, and before formatter.write is called on a
\* Storage, startTransaction() has returned on that Storage and on every
\* Storage before it in the list.
C1_StartedBeforeWriteOnSameStorage ==
    SingleInstance =>
        /\ InListOrder("startTransaction")
        /\ \A p \in Calls("write") : \A k \in 1..trace[p].st : StartedBefore(p, k)

C1_Witness ==
    /\ SingleInstance
    /\ N = 3
    /\ \E p \in Calls("write") : trace[p].st = 2
    /\ ~(\E q \in Calls("startTransaction") : trace[q].st = 3)

\* C2: a single-instance persist that completes without error has called
\* formatter.write exactly once per Storage in list order and
\* endTransaction() exactly once per Storage in list order, and every
\* endTransaction() call comes after write has returned for all Storages.
C2_WriteOnceThenEndInOrder ==
    SingleInstance =>
        /\ InListOrder("write")
        /\ InListOrder("endTransaction")
        /\ \A e \in Calls("endTransaction") :
              Cardinality({w \in Returned("write") : w < e}) = N
        /\ pc = "done" =>
              /\ Cardinality(Returned("write")) = N
              /\ Cardinality(Returned("endTransaction")) = N
              /\ \A p \in 1..Len(trace) : trace[p].ok

C2_Witness ==
    /\ SingleInstance
    /\ pc = "done"
    /\ N = 3
    /\ Cardinality(Calls("endTransaction")) = 3

C5_OneReadThenUpdates ==
    (pc = "r_done" /\ N >= 1) =>
        /\ Cardinality(Calls("read")) = 1
        /\ \A p \in Calls("read") : trace[p].st = 1
        /\ Cardinality(Calls("update")) = N - 1
        /\ \A p \in Calls("update") :
              trace[p].st = 1 + Cardinality({q \in Calls("update") : q <= p})

UsedBefore(e) ==
    {p \in Returned("read") \cup Returned("update") : p < e}

\* C6 (as stated): startTransaction() has returned on every Storage of the
\* list before formatter.read is called, and endTransaction() is called on
\* the Storages in list order only after the read and all updates returned.
C6_AllStartedBeforeRead ==
    /\ \A p \in Calls("read") : \A k \in 1..N : StartedBefore(p, k)
    /\ InListOrder("endTransaction")
    /\ \A e \in Calls("endTransaction") : Cardinality(UsedBefore(e)) = N

\* C6 (amended): startTransaction() is called on the Storages in list order,
\* and before formatter.read or formatter.update is called on a Storage it
\* has returned on that Storage and on every Storage before it;
\* endTransaction() is called on the Storages in list order, only after the
\* read/update calls on all Storages have returned.
C6_StartedBeforeUseEndAfterAll ==
    /\ InListOrder("startTransaction")
    /\ \A p \in Calls("read") \cup Calls("update") :
          \A k \in 1..trace[p].st : StartedBefore(p, k)
    /\ InListOrder("endTransaction")
    /\ \A e \in Calls("endTransaction") : Cardinality(UsedBefore(e)) = N
    /\ pc = "r_done" => Cardinality(Returned("endTransaction")) = N

C6_Witness ==
    /\ pc = "r_done"
    /\ N = 3
    /\ Cardinality(Calls("update")) = 2
    /\ Cardinality(Calls("endTransaction")) = 3

\* C7: retrieving through a two-element list with the test Formatter applies
\* the Storages in list order: a field only the first Storage supplies and a
\* field only the second supplies are both in the returned object, and when
\* both supply the same field the object holds the second Storage's value.
C7_TwoStorageUpdateOrder ==
    (pc = "r_done" /\ fmt = "MyFormatter" /\ N = 2) =>
        /\ persistable # NullPtr
        /\ persistable \in DOMAIN objs
        /\ storageList = <<"BoostStorage", "DbStorage">> =>
              objs[persistable] = [ra |-> stored[1], decl |-> stored[2]]
        /\ storageList = <<"DbStorage", "BoostStorage">> =>
              objs[persistable] = [ra |-> stored[2], decl |-> stored[1]]
        /\ storageList = <<"BoostStorage", "BoostStorage">> =>
              objs[persistable] = [ra |-> stored[2], decl |-> 0]
        /\ storageList = <<"DbStorage", "DbStorage">> =>
              objs[persistable] = [ra |-> 0, decl |-> stored[2]]

C7_Witness ==
    /\ pc = "r_done"
    /\ fmt = "MyFormatter"
    /\ storageList = <<"BoostStorage", "BoostStorage">>
    /\ stored[1] # stored[2]
    /\ persistable # NullPtr
    /\ objs[persistable].ra = stored[2]

\* ========================================================================
\* Properties of DbStorageImpl::query (checked under SpecQuery)
\* ========================================================================

\* positions of the ":name" tokens of a WHERE text: a ':' followed by a letter
TokenStarts(w) ==
    {p \in 1..(Len(w) - 1) : w[p] = ":" /\ w[p + 1] \in Letters}

\* the name of the i-th token from the left: the longest run of letters
\* after its ':'
NthTokenName(w, i) ==
    LET p == CHOOSE q \in TokenStarts(w) :
                 Cardinality({r \in TokenStarts(w) : r < q}) = i - 1
        e == CHOOSE f \in (p + 1)..Len(w) :
                 /\ \A r \in (p + 1)..f : w[r] \in Letters
                 /\ f = Len(w) \/ w[f + 1] \notin Letters
    IN  SubSeq(w, p + 1, e)

\* C8: after a successful query(), the prepared statement has one positional
\* placeholder per ":name" token of the WHERE text, and the i-th bound
\* parameter is the condParam value declared under the name of the i-th
\* token read left to right, whatever the order of the condParam calls.
C8_WhereBindsFollowTokenOrder ==
    (sent.kind = "SELECT" /\ dbResult = "ok") =>
        /\ Len(sent.binds) = Cardinality(TokenStarts(whereClause))
        /\ Cardinality({p \in DOMAIN sent.where : sent.where[p] = "?"}) = Len(sent.binds)
        /\ \A i \in 1..Len(sent.binds) :
              LET n == NthTokenName(whereClause, i)
              IN  /\ n \in DOMAIN inputVars
                  /\ sent.binds[i].buffer = inputVars[n].data
                  /\ sent.binds[i].buffer_type = inputVars[n].type
                  /\ sent.binds[i].buffer_length = inputVars[n].length
                  /\ sent.binds[i].is_unsigned = inputVars[n].isUnsigned

C8_Witness ==
    /\ sent.kind = "SELECT"
    /\ dbResult = "ok"
    /\ whereClause = <<":", "y", ":", "x">>
    /\ inputVars[<<"x">>].data = 1
    /\ inputVars[<<"y">>].data = 2
    /\ sent.binds[1].buffer = 2
    /\ sent.binds[2].buffer = 1

\* ========================================================================
\* Properties of DbStorageImpl::insertRow (checked under SpecInsert)
\* ========================================================================

\* C9: the INSERT that insertRow() executes has one column name, one
\* placeholder and one bound value per current input binding, and the i-th
\* bound value is the binding (null flag, type, bytes, length, signedness)
\* of the i-th column name.
C9_InsertRowBindsMatchNames ==
    sent.kind = "INSERT" =>
        /\ Len(sent.names) = Cardinality(DOMAIN inputVars)
        /\ sent.placeholders = Cardinality(DOMAIN inputVars)
        /\ Len(sent.binds) = Cardinality(DOMAIN inputVars)
        /\ {sent.names[i] : i \in DOMAIN sent.names} = {Quote(n) : n \in DOMAIN inputVars}
        /\ \A i \in DOMAIN sent.names : \A n \in DOMAIN inputVars :
              sent.names[i] = Quote(n) =>
                 IF inputVars[n].isNull
                 THEN sent.binds[i].buffer_type = "MYSQL_TYPE_NULL"
                 ELSE /\ sent.binds[i].buffer_type = inputVars[n].type
                      /\ sent.binds[i].buffer = inputVars[n].data
                      /\ sent.binds[i].buffer_length = inputVars[n].length
                      /\ sent.binds[i].length = inputVars[n].length
                      /\ sent.binds[i].is_unsigned = inputVars[n].isUnsigned

C9_Witness ==
    /\ sent.kind = "INSERT"
    /\ sent.names = <<Quote(<<"y">>), Quote(<<"x">>)>>
    /\ sent.binds[1].buffer_type = "MYSQL_TYPE_NULL"
    /\ sent.binds[2].is_unsigned
    /\ sent.binds[2].buffer = 2

\* C10: insertRow() leaves the input bindings as they were, whether it
\* succeeds or throws; and a row inserted after an earlier one carries, for
\* every column that was not set again since the earlier row, the earlier
\* row's value, and for every column set again its new value.
C10_InsertRowKeepsBindings ==
    [][ /\ InsertRow => inputVars' = inputVars
        /\ (sent'.kind = "INSERT" /\ lastRow # NoRow) =>
              /\ \A c \in DOMAIN lastRow \ touched :
                    /\ c \in DOMAIN lastRow'
                    /\ lastRow'[c] = lastRow[c]
              /\ \A c \in touched \cap DOMAIN inputVars :
                    /\ c \in DOMAIN lastRow'
                    /\ IF inputVars[c].isNull
                       THEN lastRow'[c].buffer_type = "MYSQL_TYPE_NULL"
                       ELSE lastRow'[c].buffer = inputVars[c].data
      ]_vars

C10_Witness ==
    /\ sent.kind = "INSERT"
    /\ reused = {<<"y">>}
    /\ DOMAIN lastRow = InsertColumns
    /\ \A c \in InsertColumns : lastRow[c].buffer_type = "MYSQL_TYPE_LONGLONG"
    /\ lastRow[<<"y">>].buffer = 1
    /\ lastRow[<<"x">>].buffer = 2

\* ------------------------------------------------------------------------
\* C11.  After setTableForInsert(), every setColumn(n, v) leaves exactly one
\* binding for n, carrying v, and every setColumnToNull(n) leaves exactly one
\* binding for n, carrying the null marker; the call returns normally, the
\* bindings of the other columns are untouched and no statement is sent.
\* (Violated: a value of one byte set after "" and setColumnToNull() is copied
\* into a buffer of no bytes.)
\* ------------------------------------------------------------------------
C11_BindingsCarryLatestCall ==
    [][/\ \A n \in InsertColumns : \A tv \in BindValues :
            SetColumn(n, tv) =>
               /\ DOMAIN inputVars' = DOMAIN inputVars \cup {n}
               /\ ~inputVars'[n].isNull
               /\ inputVars'[n].data = ToBuffer(tv[1], tv[2])
               /\ dbResult' = "ok"
               /\ \A m \in DOMAIN inputVars \ {n} : inputVars'[m] = inputVars[m]
               /\ sent' = NoStatement
       /\ \A n \in InsertColumns :
            SetColumnToNull(n) =>
               /\ DOMAIN inputVars' = DOMAIN inputVars \cup {n}
               /\ inputVars'[n].isNull
               /\ dbResult' = "ok"
               /\ \A m \in DOMAIN inputVars \ {n} : inputVars'[m] = inputVars[m]
               /\ sent' = NoStatement]_vars

\* ------------------------------------------------------------------------
\* C12.  In every reachable state at most one prepared statement of the
\* DbStorage is open, whatever calls were made and however they ended.
\* (Violated: query() assigns a new handle to _statement without closing
\* the one it held.)
\* ------------------------------------------------------------------------
C12_AtMostOneStatementOpen == openStmts <= 1

\* ------------------------------------------------------------------------
\* C13.  After finishQuery() and until the next query(), a call of next(),
\* getColumnByPos() or columnIsNull() raises an error.  (Violated:
\* columnIsNull() returns the flag of the last row fetched, getColumnByPos()
\* passes a null statement to the client library.)
\* ------------------------------------------------------------------------
Finished == statement = "null" /\ fetches = <<"closed">>

C13_NoRowDataAfterFinishQuery ==
    [][(/\ Finished
        /\ \/ Next
           \/ \E pos \in CursorPositions : \E T \in CursorTypes : GetColumnByPos(pos, T)
           \/ \E pos \in CursorPositions : ColumnIsNull(pos))
       => dbResult' = "error"]_vars

\* ------------------------------------------------------------------------
\* C14.  For a query whose result has n rows, the first n calls of next()
\* return true and the call after them returns false (calls that fail in the
\* database aside).  (Violated: with an output binding, next() raises an
\* error for a row holding a text longer than the bound buffer.)
\* ------------------------------------------------------------------------
FetchesOf(kinds) == {k \in DOMAIN fetches : fetches[k] \in kinds}

C14_TrueForEachRowThenFalse ==
    (result.open /\ FetchesOf({"failed"}) = {}) =>
       \A k \in DOMAIN fetches :
          fetches[k] = IF k <= Len(result.rows) THEN "true" ELSE "false"

\* C14, amended.  For a query whose result has n rows: every call of next()
\* that does not fail in the database takes one row until n rows are taken,
\* and returns true for it unless an output binding is too short for a value
\* of the row, in which case it raises an error; next() returns false only
\* when n rows were taken, and never returns true more than n times.  When no
\* call fails, the first n calls return true and the call after them false.
C14_TrueOncePerRowUnlessTruncated ==
    result.open =>
       /\ cursor = Cardinality(FetchesOf({"true", "truncated", "unbound"}))
       /\ cursor <= Len(result.rows)
       /\ Cardinality(FetchesOf({"true"})) <= Len(result.rows)
       /\ \A k \in FetchesOf({"false"}) :
             Cardinality({j \in FetchesOf({"true", "truncated", "unbound"}) : j < k})
                = Len(result.rows)
       /\ \A k \in FetchesOf({"truncated"}) : DOMAIN outputVars # {}
       /\ FetchesOf({"failed", "truncated", "unbound"}) = {} =>
             \A k \in DOMAIN fetches :
                fetches[k] = IF k <= Len(result.rows) THEN "true" ELSE "false"

C14_Witness ==
    /\ result.open
    /\ Len(result.rows) = 2
    /\ fetches = <<"true", "true", "false">>

\* ------------------------------------------------------------------------
\* C15.  On the current row of an open query without output bindings,
\* getColumnByPos(pos) and columnIsNull(pos) with a position of the SELECT
\* list return normally, getColumnByPos() delivers the null flag and the value
\* of column pos of that row, and neither call changes the SELECT list, the
\* output bindings, the outParam destinations or the cursor position.
\* ------------------------------------------------------------------------
C15_ReadByPositionLeavesCursor ==
    [][\A pos \in CursorPositions :
         (HasCurrentRow /\ DOMAIN outputVars = {} /\ 0 <= pos /\ pos < numResultFields) =>
            /\ \A T \in CursorTypes :
                  GetColumnByPos(pos, T) =>
                     /\ dbResult' = "ok"
                     /\ fieldNulls'[pos + 1] = MyBool(result.rows[cursor][pos + 1].isNull)
                     /\ ~result.rows[cursor][pos + 1].isNull =>
                           /\ ret'.kind = "value"
                           /\ ret'.v = result.rows[cursor][pos + 1].value
                     /\ UNCHANGED <<outColumns, outputVars, dests, cursor>>
            /\ ColumnIsNull(pos) =>
                  /\ dbResult' = "ok"
                  /\ ret'.kind = "bool"
                  /\ UNCHANGED <<outColumns, outputVars, dests, cursor>>]_vars

C15_Witness ==
    /\ HasCurrentRow
    /\ DOMAIN outputVars = {}
    /\ cursor = 2
    /\ dbResult = "ok"
    /\ ret.kind = "value"

\* ------------------------------------------------------------------------
\* Round trip: what was written against what is read back
\* ------------------------------------------------------------------------
\* next() returned true for the row the cursor is on
OnRow == HasCurrentRow /\ fetches[Len(fetches)] = "true"

\* the most recent call was call(pos), on the row the cursor is on, for a
\* position of the SELECT list whose column the inserted row has
ReadAt(call) ==
    /\ OnRow
    /\ dbResult = "ok"
    /\ ret.call = call
    /\ ret.pos + 1 \in DOMAIN outColumns
    /\ ColumnAt(ret.pos) \in DOMAIN lastRow

\* the output bindings whose column the inserted row has a value for, after
\* next() returned true
Delivered ==
    IF OnRow /\ DOMAIN outputVars # {}
    THEN {i \in DOMAIN outColumns : outColumns[i] \in DOMAIN dests /\ Wrote(ColumnAt(i - 1))}
    ELSE {}

\* the nanosecond count setColumn<DateTime> was called with, for a count that
\* is a multiple of a microsecond
NsecsWritten(t) == t.second * NsPerSec + t.second_part * 1000

ScalarTypes ==
    {"MYSQL_TYPE_LONGLONG", "MYSQL_TYPE_LONG", "MYSQL_TYPE_VAR_STRING", "MYSQL_TYPE_DOUBLE"}

C17_ScalarsRoundTrip ==
    /\ result.open => Len(result.rows) = 1
    /\ \A i \in Delivered :
          lastRow[ColumnAt(i - 1)].buffer_type \in ScalarTypes =>
             /\ dests[outColumns[i]].set
             /\ dests[outColumns[i]].v = lastRow[ColumnAt(i - 1)].buffer
             /\ ~dests[outColumns[i]].junk
    /\ (/\ ReadAt("getColumnByPos")
        /\ lastRow[ColumnAt(ret.pos)].buffer_type \in ScalarTypes) =>
          /\ ret.kind = "value"
          /\ ret.v = lastRow[ColumnAt(ret.pos)].buffer
          /\ ~ret.junk

WithinOneSecond(a, b) == a - b < NsPerSec /\ b - a < NsPerSec

Before == 1..lookup.at

\* the first registration made under name n, or for type t
FirstWithName(n) ==
    CHOOSE i \in Before : registered[i].name = n
                          /\ \A j \in Before : registered[j].name = n => i <= j

FirstWithType(t) ==
    CHOOSE i \in Before : registered[i].type = t
                          /\ \A j \in Before : registered[j].type = t => i <= j

\* the key of the most recent lookup was not registered before it
Unregistered ==
    \/ lookup.by = "name" /\ \A i \in Before : registered[i].name # lookup.key
    \/ lookup.by = "type" /\ \A i \in Before : registered[i].type # lookup.key

\* ------------------------------------------------------------------------
\* C19.  lookupFormatter() for a name, or a type identity, that was never
\* registered raises an error of kind NotFound and returns no Formatter.
\* (Violated: the error raised is InvalidParameterException.)
\* ------------------------------------------------------------------------
C19_UnregisteredLookupRaisesNotFound ==
    Unregistered => lookup.error = "NotFound" /\ lookup.madeBy = NullPtr

\* C19, amended.  lookupFormatter() for a name, or a type identity, that was
\* never registered raises InvalidParameterException (the invalid-argument
\* kind) and returns no Formatter.
C19_UnregisteredLookupRaisesInvalidParameter ==
    Unregistered =>
       lookup.error = "InvalidParameterException" /\ lookup.madeBy = NullPtr

C19_Witness ==
    /\ Unregistered
    /\ lookup.by = "type"
    /\ lookup.at > 0

\* ------------------------------------------------------------------------
\* C20.  After any sequence of registerFormatter() calls, for every
\* registration (n, t, f) made, lookupFormatter(t) and lookupFormatter(n)
\* succeed and return a Formatter produced by f.  (Violated: a second
\* registration under the same name, or for the same type, is not entered.)
\* ------------------------------------------------------------------------
C20_EveryRegistrationIsFound ==
    \A i \in Before :
       /\ (lookup.by = "name" /\ lookup.key = registered[i].name) =>
             lookup.error = "none" /\ lookup.madeBy = registered[i].factory
       /\ (lookup.by = "type" /\ lookup.key = registered[i].type) =>
             lookup.error = "none" /\ lookup.madeBy = registered[i].factory

\* C20, amended.  After any sequence of registerFormatter() calls, for every
\* registration (n, t, f) made, lookupFormatter(n) succeeds and returns a
\* Formatter produced by the factory of the first registration made under n,
\* and lookupFormatter(t) succeeds and returns what lookupFormatter(n1)
\* returns, n1 being the name of the first registration made for t.
C20_FirstRegistrationIsFound ==
    \A i \in Before :
       /\ (lookup.by = "name" /\ lookup.key = registered[i].name) =>
             /\ lookup.error = "none"
             /\ lookup.madeBy = registered[FirstWithName(lookup.key)].factory
       /\ (lookup.by = "type" /\ lookup.key = registered[i].type) =>
             /\ lookup.error = "none"
             /\ lookup.madeBy =
                   registered[FirstWithName(registered[FirstWithType(lookup.key)].name)].factory

C20_Witness ==
    /\ lookup.by = "type"
    /\ lookup.error = "none"
    /\ \E i \in Before : \E j \in Before :
          /\ i < j
          /\ registered[i].type = lookup.key
          /\ registered[j].type = lookup.key
          /\ registered[j].name # registered[i].name
          /\ registered[j].factory # lookup.madeBy

\* ------------------------------------------------------------------------
\* C21: two lookups of the same registered type identity, of the same
\* registered name, or of a type identity and the name it was registered
\* with, return two distinct Formatter instances of the same concrete class;
\* no Formatter instance is handed out twice.
\* ------------------------------------------------------------------------
SameRegistration(a, b) ==
    \/ a = b
    \/ a \in DOMAIN nameForType /\ nameForType[a] = b
    \/ b \in DOMAIN nameForType /\ nameForType[b] = a

C21_LookupsNeverAlias ==
    \A i \in DOMAIN handedOut : \A j \in DOMAIN handedOut :
        i < j =>
            /\ handedOut[i].ptr.id # handedOut[j].ptr.id
            /\ SameRegistration(handedOut[i].key, handedOut[j].key)
                    => handedOut[i].ptr.kind = handedOut[j].ptr.kind

\* the same type identity was looked up twice, and so was a type identity and
\* then its name (as in tests/FormatterRegistry_1.cc)
C21_Witness ==
    /\ Len(handedOut) = 2
    /\ handedOut[1].key \in TypeIds
    /\ handedOut[2].key \in PersistableNames
    /\ nameForType[handedOut[1].key] = handedOut[2].key
    /\ Len(registered) >= 2

\* ------------------------------------------------------------------------
\* C22: createInstance(name) returns a new Storage of the matching variant
\* for each of the five backend names archive-file, xml-file,
\* relational-database, bulk-load-database and flat-image, and for every other
\* name raises an invalid-argument error without constructing a Storage.
\* ------------------------------------------------------------------------
C22_FiveVariantNamesConstruct ==
    [][created' # created =>
         IF created'.name \in VariantNames
         THEN /\ created'.error = "none"
              /\ Len(storages') = Len(storages) + 1
              /\ storages'[Len(storages')] = NewStorage(VariantClass(created'.name))
         ELSE /\ created'.error = "std::invalid_argument"
              /\ storages' = storages]_vars

\* C22 as the code has it: the five names are the names of the Storage
\* subclasses; every other name, the variant names among them, raises
\* std::invalid_argument and constructs nothing.
C22_FiveClassNamesConstruct ==
    [][created' # created =>
         IF created'.name \in StorageNames
         THEN /\ created'.error = "none"
              /\ Len(storages') = Len(storages) + 1
              /\ storages'[Len(storages')] = NewStorage(created'.name)
              /\ \A k \in DOMAIN storages : storages'[k] = storages[k]
         ELSE /\ created'.error = "std::invalid_argument"
              /\ storages' = storages]_vars

\* one Storage was constructed and then a call with another name raised
C22_Witness ==
    /\ Len(storages) = 1
    /\ storages[1].kind = "DbTsvStorage"
    /\ created.name = "bulk-load-database"
    /\ created.error = "std::invalid_argument"

\* ------------------------------------------------------------------------
\* C23: a Storage instance never holds both a live persist-side resource
\* (output stream or archive) and a live retrieve-side resource (input stream
\* or archive), whatever setPersistLocation / setRetrieveLocation calls were
\* made on it.
\* ------------------------------------------------------------------------
\* an output archive on an open output stream; an input archive on an open
\* input stream
PersistSideLive(s) == s.ostream # NoStream /\ s.oarchive

RetrieveSideLive(s) == s.istream /\ s.iarchive

C23_OneDirectionPerInstance ==
    \A i \in DOMAIN storages :
        ~(PersistSideLive(storages[i]) /\ RetrieveSideLive(storages[i]))

\* ------------------------------------------------------------------------
\* C30: for every path all of whose already-existing ancestors are
\* directories, setPersistLocation on a file-based backend succeeds and, when
\* it returns, every ancestor directory of the path exists, for relative and
\* for absolute paths.
\* ------------------------------------------------------------------------
\* the resolved ancestors of a path name, nearest last
Ancestors(name) ==
    {SubSeq(Resolve(name), 1, k) : k \in 1..(Len(Resolve(name)) - 1)}

ExistingAncestorsAreDirs(f, name) ==
    \A a \in Ancestors(name) : Entry(f, a) \in {"dir", "ENOENT"}

\* a setPersistLocation call, on a Storage holding no archive, with a path
\* that can name a file: no trailing slash, not an existing directory
PersistLocationCall ==
    /\ located'.op = "setPersistLocation"
    /\ <<located, fs, storages>>' # <<located, fs, storages>>
    /\ located'.name[Len(located'.name)] # Slash
    /\ Entry(fs, Resolve(located'.name)) # "dir"
    /\ ~storages[located'.inst].oarchive

C30_AncestorsCreated ==
    [][PersistLocationCall /\ ExistingAncestorsAreDirs(fs, located'.name)
           => /\ located'.error = "none"
              /\ \A a \in Ancestors(located'.name) : Entry(fs', a) = "dir"]_vars

\* the same for relative paths only
RelativeAncestorsCreated ==
    [][(PersistLocationCall /\ ExistingAncestorsAreDirs(fs, located'.name)
           /\ located'.name[1] # Slash)
           => /\ located'.error = "none"
              /\ \A a \in Ancestors(located'.name) : Entry(fs', a) = "dir"]_vars

\* ------------------------------------------------------------------------
\* C24: on a persisting DbTsvStorage no row reaches the database between
\* startTransaction and endTransaction; endTransaction issues exactly one
\* bulk-load statement, and that load holds every row passed to insertRow
\* during the transaction, in insertion order.
\* ------------------------------------------------------------------------
C24_OneLoadCarriesEveryRow ==
    /\ tsvLog.phase = "active" => loads = <<>>
    /\ tsvLog.result = "ok" =>
           /\ Len(loads) = 1
           /\ loads[1].rows = tsvLog.inserted

\* the same when the transaction made one staging file only
OneTableLoadCarriesEveryRow ==
    /\ tsvLog.phase = "active" => loads = <<>>
    /\ (tsvLog.result = "ok" /\ tsvLog.made = 1) =>
           /\ Len(loads) = 1
           /\ loads[1].rows = tsvLog.inserted

\* ------------------------------------------------------------------------
\* C25: after endTransaction on a persisting DbTsvStorage every staging file
\* created during the transaction has been deleted, unless SaveTemp is set, in
\* which case it remains.
\* ------------------------------------------------------------------------
C25_StagingFilesDeleted ==
    tsvLog.result = "ok" =>
        IF tsv.saveTemp THEN tsvLog.files \subseteq DOMAIN staging
        ELSE tsvLog.files \cap DOMAIN staging = {}

\* the same when the transaction made one staging file only
OneStagingFileDeleted ==
    (tsvLog.result = "ok" /\ tsvLog.made = 1) =>
        IF tsv.saveTemp THEN tsvLog.files \subseteq DOMAIN staging
        ELSE tsvLog.files \cap DOMAIN staging = {}

\* ------------------------------------------------------------------------
\* C26: utc2tai selects its correction by covering row: an instant at or
\* after the first breakpoint gets the offset of the last table row whose day
\* is not after the instant; an instant before the first breakpoint gets the
\* empirical formula and no table row.
\* ------------------------------------------------------------------------
\* the last row whose threshold day is not after the instant
CoveringRow(secs) ==
    CHOOSE j \in 1..LEAP_SECS :
        /\ UtcThreshold(j) <= secs
        /\ \A k \in (j + 1)..LEAP_SECS : secs < UtcThreshold(k)

C26_CoveringRowOffset ==
    instant.at \in {"tai", "back"} =>
        IF instant.utc.secs >= UtcThreshold(1)
        THEN /\ instant.tai.exact
             /\ instant.tai.nanos = instant.utc.nanos
             /\ instant.utc.secs - instant.tai.secs =
                    leapSecTable[CoveringRow(instant.utc.secs)].secs
        ELSE ~instant.tai.exact

\* the same for the instants that are not between the last two breakpoints
CoveringRowOffsetButLast ==
    (instant.at \in {"tai", "back"}
     /\ ~(UtcThreshold(LEAP_SECS - 1) <= instant.utc.secs
          /\ instant.utc.secs < UtcThreshold(LEAP_SECS))) =>
        IF instant.utc.secs >= UtcThreshold(1)
        THEN /\ instant.tai.exact
             /\ instant.utc.secs - instant.tai.secs =
                    leapSecTable[CoveringRow(instant.utc.secs)].secs
        ELSE ~instant.tai.exact

\* ------------------------------------------------------------------------
\* C27: for every breakpoint of the table, the instant exactly on the
\* breakpoint converted with utc2tai and back with tai2utc is the original
\* nanosecond count.
\* ------------------------------------------------------------------------
OnBreakpoint(d) ==
    d.nanos = 0 /\ \E j \in 1..LEAP_SECS : d.secs = UtcThreshold(j)

C27_BreakpointRoundTrip ==
    (instant.at = "back" /\ OnBreakpoint(instant.utc)) =>
        /\ instant.back.exact
        /\ instant.back.secs = instant.utc.secs
        /\ instant.back.nanos = instant.utc.nanos

\* the same for the last breakpoint only
LastBreakpointRoundTrip ==
    (instant.at = "back" /\ instant.utc = DateTimeOf(UtcThreshold(LEAP_SECS), 0)) =>
        /\ instant.back.exact
        /\ instant.back.secs = instant.utc.secs
        /\ instant.back.nanos = instant.utc.nanos

\* ------------------------------------------------------------------------
\* C29: the property-set archive is self-describing and round-trips: a save
\* writes the count of entries and then one (name, tag, value) record for
\* each entry, each supported type has a tag of its own, and loading what
\* was saved gives the same names, each with a value of the same type and
\* equal to the value saved.
\* ------------------------------------------------------------------------
\* a holds the value b holds: the same elements, for a Persistable::Ptr the
\* same object content
SameValue(a, b) ==
    /\ a.type = b.type
    /\ DOMAIN a.value = DOMAIN b.value
    /\ \A i \in DOMAIN a.value :
          IF a.type = "Persistable::Ptr" THEN a.value[i].s = b.value[i].s
          ELSE a.value[i] = b.value[i]

AllSupported(ps) == \A n \in DOMAIN ps : ps[n].type \in SupportedTypes

C29_ArchiveRoundTrips ==
    /\ \A T1, T2 \in SupportedTypes :
          /\ TagOf(T1) # "?"
          /\ TagOf(T1) = TagOf(T2) => T1 = T2
    /\ (archive.at \in {"saved", "save failed"} /\ AllSupported(archive.ps)) =>
          /\ archive.at = "saved"
          /\ archive.out.nitems = Cardinality(DOMAIN archive.ps)
          /\ Len(archive.out.records) = archive.out.nitems
          /\ {archive.out.records[i].name : i \in DOMAIN archive.out.records}
                = DOMAIN archive.ps
          /\ \A i \in DOMAIN archive.out.records :
                archive.out.records[i].type
                    = TagOf(archive.ps[archive.out.records[i].name].type)
    /\ archive.at = "loaded" =>
          /\ archive.error = "none"
          /\ DOMAIN archive.loaded = DOMAIN archive.ps
          /\ \A n \in DOMAIN archive.ps :
                SameValue(archive.loaded[n], archive.ps[n])

\* a property set with an unsigned short and a DateTime has been saved and
\* loaded
C29_Witness ==
    /\ archive.at = "loaded"
    /\ DOMAIN archive.ps = PropertyNames
    /\ archive.ps["a"].type = "unsigned short"
    /\ archive.ps["b"].type = "DateTime"
    /\ archive.loaded["a"].value[1].n = 40109
    /\ archive.out.records[1].name = "b"


\* ------------------------------------------------------------------------
\* C31: registerFormatter never replaces an entry.  Each name stays with the
\* factory of the first registration made under it and each type identity
\* with the name of the first registration made for it, so a lookup that
\* succeeded resolves through entries that later registrations leave as they
\* were.
\* ------------------------------------------------------------------------
\* the first of all registrations made under name n, or for type t
FirstEverWithName(n) ==
    CHOOSE i \in DOMAIN registered :
        registered[i].name = n
        /\ \A j \in DOMAIN registered : registered[j].name = n => i <= j

FirstEverWithType(t) ==
    CHOOSE i \in DOMAIN registered :
        registered[i].type = t
        /\ \A j \in DOMAIN registered : registered[j].type = t => i <= j

C31_FirstRegistrationKept ==
    /\ DOMAIN byName = {registered[i].name : i \in DOMAIN registered}
    /\ DOMAIN nameForType = {registered[i].type : i \in DOMAIN registered}
    /\ \A n \in DOMAIN byName :
          byName[n] = registered[FirstEverWithName(n)].factory
    /\ \A t \in DOMAIN nameForType :
          nameForType[t] = registered[FirstEverWithType(t)].name
    /\ (lookup.by = "name" /\ lookup.error = "none") =>
          lookup.madeBy = byName[lookup.key]
    /\ (lookup.by = "type" /\ lookup.error = "none") =>
          lookup.madeBy = byName[nameForType[lookup.key]]

\* after a lookup by type succeeded, the same type was registered again with
\* another name and another factory
C31_Witness ==
    /\ lookup.by = "type"
    /\ lookup.error = "none"
    /\ Len(registered) > lookup.at
    /\ registered[Len(registered)].type = lookup.key
    /\ registered[Len(registered)].name # nameForType[lookup.key]
    /\ registered[Len(registered)].factory # lookup.madeBy

\* ------------------------------------------------------------------------
\* C32: one storage list used for the persist calls iter = 0, 1, ..., len - 1.
\* startTransaction is called on each Storage once, in the call with
\* iter = 0; endTransaction is called on each Storage once, at the end of the
\* call with iter = len - 1; every write on a Storage comes after the
\* startTransaction and before the endTransaction of that Storage.
\* ------------------------------------------------------------------------
\* the calls named c made on Storage k
CallsOn(c, k) == {p \in Calls(c) : trace[p].st = k}

\* the call with iter = 0 has returned
FirstCallOver == (pc = "done" /\ iter = 0) \/ iter >= 1

\* the call with iter = len - 1 has returned
LastCallOver == pc = "done" /\ iter = len - 1

C32_OneTransactionPerSequence ==
    /\ \A k \in 1..N :
          /\ Cardinality(CallsOn("startTransaction", k)) <= 1
          /\ Cardinality(CallsOn("endTransaction", k)) <= 1
          /\ \A w \in CallsOn("write", k) :
                /\ \E s \in CallsOn("startTransaction", k) : s < w /\ trace[s].ok
                /\ \A e \in CallsOn("endTransaction", k) : w < e
    /\ Calls("endTransaction") # {} => iter = len - 1
    /\ \A s \in Calls("startTransaction") :
          Cardinality({w \in Calls("write") : w < s}) < N
    /\ FirstCallOver =>
          \A k \in 1..N : Cardinality(CallsOn("startTransaction", k)) = 1
    /\ LastCallOver =>
          \A k \in 1..N :
             /\ Cardinality(CallsOn("endTransaction", k)) = 1
             /\ Cardinality(CallsOn("write", k)) = len
             /\ \A e \in CallsOn("endTransaction", k) :
                   Cardinality({w \in Calls("write") : w < e}) = N * len

\* two instances have been persisted to three Storages
C32_Witness ==
    /\ LastCallOver
    /\ len = 2
    /\ N = 3
    /\ Cardinality(Calls("write")) = 6
    /\ Cardinality(Calls("endTransaction")) = 3

\* ------------------------------------------------------------------------
\* C33: retrieveVector terminates and closes what it opened: it calls
\* startTransaction on every Storage before the first read, and
\* endTransaction on every Storage once, in list order, before it returns,
\* also when a read or an update raises; the error is then not propagated and
\* the result holds the objects completed before the failure.
\* ------------------------------------------------------------------------
\* retrieveVector has returned to its caller, normally or with an exception
RetrieveVectorOver == pc \in {"v_done", "failed"}

\* the calls of the trace that ended with an exception
Thrown(c) == Calls(c) \ Returned(c)

\* the passes over the storage list that were completed: their last call
\* was made on the last Storage and returned
CompletedPasses ==
    {p \in Returned("read") \cup Returned("update") : trace[p].st = N}

RetrieveVectorClosesWhatItOpened ==
    /\ \A r \in Calls("read") :
          Cardinality({s \in Returned("startTransaction") : s < r}) = N
    /\ InListOrder("startTransaction")
    /\ InListOrder("endTransaction")
    /\ Thrown("read") \cup Thrown("update") # {} => done
    /\ pc = "failed" =>
          Len(trace) \in Thrown("startTransaction") \cup Thrown("endTransaction")
    /\ (pc = "v_done" /\ N >= 1) =>
          /\ Cardinality(Returned("endTransaction")) = N
          /\ Len(retrieved) = Cardinality(CompletedPasses)
          /\ \A e \in Calls("endTransaction") :
                \A p \in Calls("read") \cup Calls("update") : p < e

C33_TerminatesAndCloses ==
    /\ []RetrieveVectorClosesWhatItOpened
    /\ <>RetrieveVectorOver

\* the same for a storage list that is not empty
NonEmptyListTerminatesAndCloses ==
    /\ []RetrieveVectorClosesWhatItOpened
    /\ (N >= 1) => <>RetrieveVectorOver

\* the query state setTableForQuery() leaves: no bindings, no output columns,
\* no WHERE, GROUP BY or ORDER BY text
QueryStateReset ==
    /\ DOMAIN inputVars = {}
    /\ DOMAIN outputVars = {}
    /\ outColumns = <<>>
    /\ whereClause = <<>>
    /\ groupBy = <<>>
    /\ orderBy = <<>>

\* the names the WHERE text refers to as `:name`
WhereParams ==
    IF whereClause = <<>> THEN {}
    ELSE LET toks == RegexTokens(whereClause, 1) IN {toks[i] : i \in DOMAIN toks}

\* C34: setTableForQuery() on a connected storage leaves no condParam or
\* setColumn binding, no output column, no output binding and no WHERE,
\* GROUP BY or ORDER BY text of an earlier query; and a query() whose WHERE
\* text names a parameter that was not declared again since then raises an
\* error and sends no SELECT.
C34_SetTableForQueryResets ==
    [][/\ (db /\ SetTableForQuery) => QueryStateReset'
       /\ (Query /\ ~(WhereParams \subseteq DOMAIN inputVars))
             => (dbResult' = "error" /\ sent' = NoStatement)]_vars

\* a query() failed on the parameter of its WHERE text, which has no binding
\* although SELECT columns are declared
C34_Witness ==
    /\ dbResult = "error"
    /\ whereClause = <<":", "x">>
    /\ DOMAIN inputVars = {}
    /\ outColumns # <<>>
    /\ queryTables = <<Quote(TableName)>>
    /\ statement = "null"

\* the FROM list that names exactly the tables of L, in order
QuotedList(L) == [i \in DOMAIN L |-> Quote(L[i])]

\* C35: after setTableListForQuery(L) on a connected storage the tables of the
\* FROM clause are exactly the tables of L, in order, whatever tables earlier
\* setTableForQuery() or setTableListForQuery() calls had set.
C35_TableListReplacesTables ==
    [][\A L \in TableLists :
          (db /\ SetTableListForQuery(L)) => queryTables' = QuotedList(L)]_vars

\* a SELECT was sent whose FROM clause names the tables of an earlier call
\* before those of the list given last
TablesOfEarlierCallsSent ==
    /\ sent.kind = "SELECT"
    /\ \E L \in TableLists :
          /\ Len(sent.tables) > Len(L)
          /\ SubSeq(sent.tables, Len(sent.tables) - Len(L) + 1, Len(sent.tables)) = QuotedList(L)

\* C36: a DbStorage on which setRetrieveLocation() returned is read-only
\* until setPersistLocation() returns: setTableForInsert() and insertRow()
\* raise an error, change neither the insert table nor the row last sent, and
\* send no INSERT; no other call changes the mode.  Once setPersistLocation()
\* has returned, setTableForInsert() is accepted.
C36_ReadOnlyAfterRetrieveLocation ==
    [][/\ (DbSetRetrieveLocation /\ dbResult' = "ok") => readonly'
       /\ (DbSetPersistLocation /\ dbResult' = "ok") => ~readonly'
       /\ (~DbSetPersistLocation /\ ~DbSetRetrieveLocation) => UNCHANGED readonly
       /\ (readonly /\ (SetTableForInsert \/ InsertRow))
             => /\ dbResult' = "error"
                /\ sent' = NoStatement
                /\ UNCHANGED <<insertTable, lastRow, inputVars>>
       /\ (~readonly /\ SetTableForInsert)
             => (dbResult' = "ok" /\ insertTable' = TableName)]_vars

\* an insertRow() was refused on a read-only storage that had sent a row
\* before it was pointed at a database to retrieve from
C36_Witness ==
    /\ readonly
    /\ lastRow # NoRow
    /\ insertTable # <<>>
    /\ DOMAIN inputVars # {}
    /\ dbResult = "error"
    /\ sent = NoStatement

\* insertRow() sent a row for a storage that is writable
InsertAccepted ==
    /\ ~readonly
    /\ sent.kind = "INSERT"

\* C37: outParam() for a column that already has an output binding raises an
\* error and leaves the list of output columns and the output bindings as
\* they were before the call.
C37_DuplicateOutParamChangesNothing ==
    [][\A c \in OutColumnNames : \A T \in CursorTypes :
          (Quote(c) \in DOMAIN outputVars /\ OutParam(c, T))
             => /\ dbResult' = "error"
                /\ UNCHANGED <<outColumns, outputVars>>]_vars

\* what does hold for such a call: the error is raised and the bindings are
\* kept, while the column is listed once more
DuplicateOutParamKeepsBindings ==
    [][\A c \in OutColumnNames : \A T \in CursorTypes :
          (Quote(c) \in DOMAIN outputVars /\ OutParam(c, T))
             => /\ dbResult' = "error"
                /\ UNCHANGED outputVars
                /\ outColumns' = Append(outColumns, Quote(c))]_vars

\* pos is not the index of a column of the result of the last query()
InvalidPosition(pos) == pos < 0 \/ pos >= numResultFields

\* C38: after a query(), getColumnByPos(pos) and columnIsNull(pos) raise an
\* error for every pos below 0 or not below the number of result columns, and
\* so never use the per-column arrays outside their indices.
C38_InvalidPositionRaises ==
    [][\A pos \in CursorPositions : \A T \in CursorTypes :
          (/\ numResultFields # IndeterminateInt
           /\ InvalidPosition(pos)
           /\ GetColumnByPos(pos, T) \/ ColumnIsNull(pos))
             => dbResult' = "error"]_vars

\* what does hold: positions above the number of result columns are refused
PositionAboveCountRaises ==
    [][\A pos \in CursorPositions : \A T \in CursorTypes :
          (/\ numResultFields # IndeterminateInt
           /\ pos > numResultFields
           /\ GetColumnByPos(pos, T) \/ ColumnIsNull(pos))
             => dbResult' = "error"]_vars

\* C39: every row of the staging file a bulk load names, written after at
\* least one column was set, has as many fields as the load statement lists
\* columns, whatever the rows in which the columns were first set.
C39_RowsMatchColumnList ==
    \A k \in DOMAIN loads : \A r \in DOMAIN loads[k].rows :
       loads[k].rows[r] # <<>> => Len(loads[k].rows[r]) = Len(loads[k].columns)

\* what does hold: no row is longer than the column list, and the rows of one
\* file never get shorter
RowsWithinColumnList ==
    \A k \in DOMAIN loads : \A r \in DOMAIN loads[k].rows :
       /\ Len(loads[k].rows[r]) <= Len(loads[k].columns)
       /\ r > 1 => Len(loads[k].rows[r - 1]) <= Len(loads[k].rows[r])

\* C40: timeval() of a count n that is not negative has 0 <= tv_usec <
\* 1,000,000 and tv_sec * 1,000,000 + tv_usec = n divided by 1000, rounded
\* down: tv_sec is the whole seconds of n and tv_usec the whole microseconds
\* of the rest.
C40_TimevalSplitsMicroseconds ==
    instant.at = "timeval" =>
       /\ 0 <= instant.tv.tv_usec
       /\ instant.tv.tv_usec < 1000000
       /\ instant.tv.tv_sec = instant.utc.secs
       /\ instant.tv.tv_usec = instant.utc.nanos \div 1000

\* what does hold: tv_sec is the whole seconds, and tv_usec is right for the
\* counts whose whole seconds are a multiple of ten
TimevalSeconds ==
    instant.at = "timeval" =>
       /\ instant.tv.tv_sec = instant.utc.secs
       /\ instant.utc.secs % 10 = 0 => instant.tv.tv_usec = instant.utc.nanos \div 1000

====
